---- MODULE Spec2Model ----
(***************************************************************************)
(* Model of the beads -> GitHub reconciliation engine:                     *)
(*   - the identity map        (src/src/mapper.ts)                         *)
(*   - the diff algorithm      (src/src/index.ts, 159-293: diff.ts)        *)
(*   - the orchestrator        (src/src/sync.ts, 1-414)                    *)
(*   - the comment reconciler  (src/src/comments.ts)                       *)
(* Strings that the code parses (external_ref) are sequences of            *)
(* one-character strings; timestamps are tokens with a parse table.        *)
(***************************************************************************)
EXTENDS Integers, Sequences, FiniteSets, TLC

VARIABLES
    issues,     \* the snapshot handed to runSync (ordered list of records)
    config,     \* the SyncConfig handed to runSync
    mapping,    \* the MappingFile, carried from one run to the next
    github,     \* the mirror: issues created so far, number of comments made,
                \* numbers of the issues that are closed
    clock,      \* the wall clock read by new Date()
    pc,         \* position of runSync
    run,        \* number of runSync invocations started
    diff,       \* the DiffResult of the current run
    idx,        \* index of the next action of diff.actions
    result,     \* the SyncResult of the current run
    calls,      \* mirror calls made by the current run, in order
    attempts,   \* actions handed to executeAction by the current run, in order,
                \* each with what its mirror calls did
    clean,      \* no mirror call has failed or answered 404, and nothing was
                \* thrown, in any run so far
    content,    \* a text handed to a parser: the beads file, the persisted map
    returned    \* the last call of the map's or the parser's interface, with
                \* what it returned

vars == <<issues, config, mapping, github, clock, pc, run, diff, idx, result,
          calls, attempts, clean, content, returned>>

----------------------------------------------------------------------------
(* Bounds *)

MaxIssues == 2
MaxComments == 2
MaxRuns == 2
MaxRefLen == 5

----------------------------------------------------------------------------
(* Values *)

\* null / undefined where the code has a number, and Number.NaN
Null == -1
NaN == -2

None == <<>>
Some(x) == <<x>>

Ids == {"a", "b"}

\* a property name every object inherits from Object.prototype (toString,
\* valueOf, hasOwnProperty, ... behave alike)
ObjectPrototypeKeys == {"constructor"}

\* what reading such a name from an object without that own property gives:
\* a function object, whose Link fields are all undefined
Inherited == [github_issue_number |-> Null, beads_updated_at |-> "undefined"]
Statuses == {"open", "in_progress", "blocked", "closed"}

\* new Date(s).getTime(): two spellings of one instant, later instants, and
\* a string that is not a date
DateParse(s) ==
    CASE s = "t1" -> 1
      [] s = "t1z" -> 1
      [] s = "t2" -> 2
      [] s = "t3" -> 3
      [] OTHER -> NaN

\* JavaScript's > on numbers: false as soon as one side is NaN
NumGt(x, y) == x # NaN /\ y # NaN /\ x > y

Digits == {"0", "1", "2", "3", "4", "5", "6", "7", "8", "9"}

DigitVal(c) ==
    CASE c = "0" -> 0
      [] c = "1" -> 1
      [] c = "2" -> 2
      [] c = "3" -> 3
      [] c = "4" -> 4
      [] c = "5" -> 5
      [] c = "6" -> 6
      [] c = "7" -> 7
      [] c = "8" -> 8
      [] c = "9" -> 9

RECURSIVE parseInt(_)
\* parseInt(s, 10) of a string of digits; exact below 2^53, which every
\* string of MaxRefLen characters is
parseInt(s) ==
    IF s = <<>> THEN NaN
    ELSE IF Len(s) = 1 THEN DigitVal(s[1])
    ELSE parseInt(SubSeq(s, 1, Len(s) - 1)) * 10 + DigitVal(s[Len(s)])

\* /^gh-(\d+)$/ : the capture group, or None when the string does not match
GITHUB_EXTERNAL_REF_PATTERN(s) ==
    IF /\ Len(s) >= 4
       /\ s[1] = "g" /\ s[2] = "h" /\ s[3] = "-"
       /\ \A k \in 4..Len(s) : s[k] \in Digits
    THEN Some(SubSeq(s, 4, Len(s)))
    ELSE None

parseExternalRef(externalRef) ==
    LET match == GITHUB_EXTERNAL_REF_PATTERN(externalRef)
    IN  IF match = None THEN Null
        ELSE LET num == parseInt(match[1])
             IN  IF num = NaN THEN Null ELSE num

\* needsUpdate with >= where the code has >
needsUpdate_orEqual(issue, link) ==
    LET beadsUpdated == DateParse(issue.updated_at)
        lastSynced == DateParse(link.beads_updated_at)
    IN  beadsUpdated # NaN /\ lastSynced # NaN /\ beadsUpdated >= lastSynced

needsUpdate(issue, link) ==
    LET beadsUpdated == DateParse(issue.updated_at)
        lastSynced == DateParse(link.beads_updated_at)
    IN  NumGt(beadsUpdated, lastSynced)

----------------------------------------------------------------------------
(* JSON texts.  A text is a sequence of tokens: punctuation, string and     *)
(* number literals, the three keywords, white space, line feeds, and runs   *)
(* of characters that are no JSON token.  A JavaScript value is a tree.     *)

Tok(t, s, n) == [t |-> t, s |-> s, n |-> n]
Punct(t) == Tok(t, "", 0)
StrTok(s) == Tok("str", s, 0)
NumTok(n) == Tok("num", "", n)

JV(k, s, n, e) == [k |-> k, s |-> s, n |-> n, e |-> e]
JNull == JV("null", "", 0, <<>>)
JUndefined == JV("undefined", "", 0, <<>>)
JBool(b) == JV(IF b THEN "true" ELSE "false", "", 0, <<>>)
JNum(n) == JV("num", "", n, <<>>)
JStr(s) == JV("str", s, 0, <<>>)
JObj(e) == JV("obj", "", 0, e)
JArr(e) == JV("arr", "", 0, e)
Member(key, val) == [key |-> key, val |-> val]

WhiteSpace == {"ws", "nl"}

\* String.prototype.trim() leaves nothing
Blank(text) == \A i \in 1..Len(text) : text[i].t \in WhiteSpace

\* the kind of the token at i; "eof" past the end
At(text, i) == IF i \in 1..Len(text) THEN text[i].t ELSE "eof"

RECURSIVE SkipWs(_, _)
SkipWs(text, i) == IF At(text, i) \in WhiteSpace THEN SkipWs(text, i + 1) ELSE i

\* the own property key of an object set to val: replaced where it is, or added
Put(e, key, val) ==
    IF \E i \in 1..Len(e) : e[i].key = key
    THEN [i \in 1..Len(e) |-> IF e[i].key = key THEN Member(key, val) ELSE e[i]]
    ELSE Append(e, Member(key, val))

\* the value of the own property key, or undefined
Field(v, key) ==
    LET hits == SelectSeq(v.e, LAMBDA m : m.key = key)
    IN  IF v.k = "obj" /\ hits # <<>> THEN hits[1].val ELSE JUndefined

Parsed(v, i) == [ok |-> TRUE, v |-> v, i |-> i]
SyntaxError == [ok |-> FALSE, v |-> JUndefined, i |-> 0]

RECURSIVE parseValue(_, _), parseMembers(_, _, _), parseElements(_, _, _)

\* JSON.parse, the value starting at or after token i
parseValue(text, i) ==
    LET j == SkipWs(text, i)
        t == At(text, j)
    IN  CASE t = "null" -> Parsed(JNull, j + 1)
          [] t = "true" -> Parsed(JBool(TRUE), j + 1)
          [] t = "false" -> Parsed(JBool(FALSE), j + 1)
          [] t = "num" -> Parsed(JNum(text[j].n), j + 1)
          [] t = "str" -> Parsed(JStr(text[j].s), j + 1)
          [] t = "{" -> IF At(text, SkipWs(text, j + 1)) = "}"
                        THEN Parsed(JObj(<<>>), SkipWs(text, j + 1) + 1)
                        ELSE parseMembers(text, j + 1, <<>>)
          [] t = "[" -> IF At(text, SkipWs(text, j + 1)) = "]"
                        THEN Parsed(JArr(<<>>), SkipWs(text, j + 1) + 1)
                        ELSE parseElements(text, j + 1, <<>>)
          [] OTHER -> SyntaxError

\* the members of an object, after "{" or ","
parseMembers(text, i, acc) ==
    LET j == SkipWs(text, i)
        c == SkipWs(text, j + 1)
    IN  IF At(text, j) # "str" \/ At(text, c) # ":" THEN SyntaxError
        ELSE LET r == parseValue(text, c + 1)
                 m == SkipWs(text, r.i)
             IN  IF ~r.ok THEN SyntaxError
                 ELSE IF At(text, m) = ","
                 THEN parseMembers(text, m + 1, Put(acc, text[j].s, r.v))
                 ELSE IF At(text, m) = "}"
                 THEN Parsed(JObj(Put(acc, text[j].s, r.v)), m + 1)
                 ELSE SyntaxError

\* the elements of an array, after "[" or ","
parseElements(text, i, acc) ==
    LET r == parseValue(text, i)
        m == SkipWs(text, r.i)
    IN  IF ~r.ok THEN SyntaxError
        ELSE IF At(text, m) = ","
        THEN parseElements(text, m + 1, Append(acc, Member("", r.v)))
        ELSE IF At(text, m) = "]"
        THEN Parsed(JArr(Append(acc, Member("", r.v))), m + 1)
        ELSE SyntaxError

\* JSON.parse(text): one value and nothing but white space around it
JSONparse(text) ==
    LET r == parseValue(text, 1)
    IN  IF r.ok /\ SkipWs(text, r.i) > Len(text) THEN r ELSE SyntaxError

RECURSIVE JSONstringify(_), stringifyMembers(_, _, _)

\* JSON.stringify(v, null, 2): members on lines of their own; a number that
\* is NaN is written null
JSONstringify(v) ==
    CASE v.k \in {"null", "true", "false"} -> <<Punct(v.k)>>
      [] v.k = "num" -> IF v.n = NaN THEN <<Punct("null")>> ELSE <<NumTok(v.n)>>
      [] v.k = "str" -> <<StrTok(v.s)>>
      [] v.k = "obj" ->
            LET own == SelectSeq(v.e, LAMBDA m : m.val.k # "undefined")
            IN  IF own = <<>> THEN <<Punct("{"), Punct("}")>>
                ELSE <<Punct("{")>> \o stringifyMembers(own, 1, TRUE)
                        \o <<Punct("nl"), Punct("}")>>
      [] v.k = "arr" ->
            IF v.e = <<>> THEN <<Punct("["), Punct("]")>>
            ELSE <<Punct("[")>> \o stringifyMembers(v.e, 1, FALSE)
                    \o <<Punct("nl"), Punct("]")>>

\* the members from the k-th on, each on a new line, commas between them; an
\* undefined element of an array is written null
stringifyMembers(e, k, named) ==
    IF k > Len(e) THEN <<>>
    ELSE (IF k > 1 THEN <<Punct(",")>> ELSE <<>>)
         \o <<Punct("nl"), Punct("ws")>>
         \o (IF named THEN <<StrTok(e[k].key), Punct(":"), Punct("ws")>> ELSE <<>>)
         \o (IF e[k].val.k = "undefined" THEN <<Punct("null")>>
             ELSE JSONstringify(e[k].val))
         \o stringifyMembers(e, k + 1, named)

----------------------------------------------------------------------------
(* Parser of the beads file (parser.ts) *)

VALID_STATUSES == {"open", "in_progress", "blocked", "closed"}

\* content.split('\n'): the runs of tokens between line feeds
splitLines(text) ==
    LET feeds == SelectSeq([i \in 1..Len(text) |-> i], LAMBDA i : text[i].t = "nl")
        first(k) == IF k = 1 THEN 1 ELSE feeds[k - 1] + 1
        last(k) == IF k > Len(feeds) THEN Len(text) ELSE feeds[k] - 1
    IN  [k \in 1..(Len(feeds) + 1) |-> SubSeq(text, first(k), last(k))]

\* the value of the line, JNull when the line is blank or is not JSON
parseBeadsLine(line) ==
    IF Blank(line) THEN JNull
    ELSE IF JSONparse(line).ok THEN JSONparse(line).v
    ELSE JNull

\* typeof x === 'string' && x
NonEmptyString(v) == v.k = "str" /\ v.s # ""

validateBeadsIssue(issue) ==
    /\ issue.k \in {"obj", "arr"}
    /\ NonEmptyString(Field(issue, "id"))
    /\ NonEmptyString(Field(issue, "title"))
    /\ Field(issue, "status").k = "str"
    /\ Field(issue, "status").s \in VALID_STATUSES
    /\ NonEmptyString(Field(issue, "created_at"))
    /\ NonEmptyString(Field(issue, "updated_at"))

ParseError(line, text, error) == [line |-> line, content |-> text, error |-> error]

RECURSIVE parseLoop(_, _, _)
parseLoop(lines, i, acc) ==
    IF i > Len(lines) THEN acc
    ELSE LET line == lines[i]
             parsed == parseBeadsLine(line)
         IN  IF Blank(line) THEN parseLoop(lines, i + 1, acc)
             ELSE IF parsed = JNull
             THEN parseLoop(lines, i + 1,
                    [acc EXCEPT !.errors = Append(@, ParseError(i, line, "Invalid JSON"))])
             ELSE IF ~validateBeadsIssue(parsed)
             THEN parseLoop(lines, i + 1,
                    [acc EXCEPT !.errors = Append(@,
                        ParseError(i, line, "Missing required fields or invalid status"))])
             ELSE parseLoop(lines, i + 1, [acc EXCEPT !.issues = Append(@, parsed)])

\* parseBeadsFile leaving the loop at the first line it rejects
parseBeadsFile_stopsAtBadLine(text) ==
    LET lines == splitLines(text)
        rejected == {i \in 1..Len(lines) :
                        /\ ~Blank(lines[i])
                        /\ \/ parseBeadsLine(lines[i]) = JNull
                           \/ ~validateBeadsIssue(parseBeadsLine(lines[i]))}
        last == IF rejected = {} THEN Len(lines)
                ELSE CHOOSE i \in rejected : \A j \in rejected : i <= j
    IN  IF Blank(text) THEN [issues |-> <<>>, errors |-> <<>>]
        ELSE parseLoop(SubSeq(lines, 1, last), 1, [issues |-> <<>>, errors |-> <<>>])

parseBeadsFile(text) ==
    IF Blank(text) THEN [issues |-> <<>>, errors |-> <<>>]
    ELSE parseLoop(splitLines(text), 1, [issues |-> <<>>, errors |-> <<>>])

----------------------------------------------------------------------------
(* Identity map (mapper.ts).  mappings is the object's entries in key      *)
(* insertion order; a Link's comments is a function on the synced ids.     *)

NoComments == [c \in {} |-> 0]

createEmptyMapping(now) ==
    [version |-> 1, mappings |-> <<>>, sync_metadata |-> [last_full_sync |-> now]]

getMappedBeadsIds(mappingFile) ==
    [k \in 1..Len(mappingFile.mappings) |-> mappingFile.mappings[k].id]

hasMapping(mappingFile, beadsId) ==
    \E k \in 1..Len(mappingFile.mappings) : mappingFile.mappings[k].id = beadsId

\* mappingFile.mappings[beadsId]: the own property, else the inherited one,
\* else undefined
getMapping(mappingFile, beadsId) ==
    LET hits == SelectSeq(mappingFile.mappings, LAMBDA e : e.id = beadsId)
    IN  IF hits # <<>> THEN Some(hits[1].link)
        ELSE IF beadsId \in ObjectPrototypeKeys THEN Some(Inherited)
        ELSE None

setMapping(mappingFile, beadsId, link) ==
    IF hasMapping(mappingFile, beadsId)
    THEN [mappingFile EXCEPT !.mappings =
            [k \in 1..Len(@) |->
                IF @[k].id = beadsId THEN [id |-> beadsId, link |-> link] ELSE @[k]]]
    ELSE [mappingFile EXCEPT !.mappings = Append(@, [id |-> beadsId, link |-> link])]

\* delete mappingFile.mappings[beadsId]: only an own property goes
removeMapping(mappingFile, beadsId) ==
    [mappingFile EXCEPT !.mappings = SelectSeq(@, LAMBDA e : e.id # beadsId)]

\* issueMapping.comments[commentId] throws a TypeError when the object read
\* from mappings has no comments (an inherited member)
commentMappingThrows(mappingFile, beadsIssueId) ==
    LET issueMapping == getMapping(mappingFile, beadsIssueId)
    IN  issueMapping # None /\ "comments" \notin DOMAIN issueMapping[1]

\* the mirror comment id, or Null for undefined
getCommentMapping(mappingFile, beadsIssueId, commentId) ==
    LET issueMapping == getMapping(mappingFile, beadsIssueId)
    IN  IF issueMapping = None THEN Null
        ELSE IF commentId \in DOMAIN issueMapping[1].comments
             THEN issueMapping[1].comments[commentId]
             ELSE Null

\* setCommentMapping making an entry of its own when the Link is missing
setCommentMapping_createsEntry(mappingFile, beadsIssueId, commentId, githubCommentId) ==
    LET issueMapping == getMapping(mappingFile, beadsIssueId)
    IN  IF issueMapping = None
        THEN setMapping(mappingFile, beadsIssueId,
                [comments |-> [c \in {commentId} |-> githubCommentId]])
        ELSE setMapping(mappingFile, beadsIssueId,
                [issueMapping[1] EXCEPT !.comments =
                    [c \in (DOMAIN @) \cup {commentId} |->
                        IF c = commentId THEN githubCommentId ELSE @[c]]])

setCommentMapping(mappingFile, beadsIssueId, commentId, githubCommentId) ==
    LET issueMapping == getMapping(mappingFile, beadsIssueId)
    IN  IF issueMapping = None THEN mappingFile
        ELSE setMapping(mappingFile, beadsIssueId,
                [issueMapping[1] EXCEPT !.comments =
                    [c \in (DOMAIN @) \cup {commentId} |->
                        IF c = commentId THEN githubCommentId ELSE @[c]]])

updateLastSyncTime(mappingFile, now) ==
    [mappingFile EXCEPT !.sync_metadata.last_full_sync = now]

createIssueMapping(githubIssueNumber, githubIssueId, beadsUpdatedAt, adopted, now) ==
    [github_issue_number |-> githubIssueNumber,
     github_issue_id |-> githubIssueId,
     last_sync_at |-> now,
     beads_updated_at |-> beadsUpdatedAt,
     adopted_from_external_ref |-> adopted,
     comments |-> NoComments]

\* the elements of a finite set in an order
RECURSIVE SetToSeq(_)
SetToSeq(S) ==
    IF S = {} THEN <<>>
    ELSE LET x == CHOOSE y \in S : TRUE IN <<x>> \o SetToSeq(S \ {x})

\* the object a Link is in memory: its own properties in the order
\* createIssueMapping writes them
linkObject(link) ==
    JObj(<<Member("github_issue_number", JNum(link.github_issue_number)),
           Member("github_issue_id", JNum(link.github_issue_id)),
           Member("last_sync_at", JStr(link.last_sync_at)),
           Member("beads_updated_at", JStr(link.beads_updated_at)),
           Member("adopted_from_external_ref", JBool(link.adopted_from_external_ref)),
           Member("comments",
                  JObj([k \in 1..Cardinality(DOMAIN link.comments) |->
                        LET c == SetToSeq(DOMAIN link.comments)[k]
                        IN  Member(c, JObj(<<Member("github_comment_id",
                                                    JNum(link.comments[c]))>>))]))>>)

\* the object a MappingFile is in memory
mappingObject(mappingFile) ==
    JObj(<<Member("version", JNum(mappingFile.version)),
           Member("mappings",
                  JObj([k \in 1..Len(mappingFile.mappings) |->
                        Member(mappingFile.mappings[k].id,
                               linkObject(mappingFile.mappings[k].link))])),
           Member("sync_metadata",
                  JObj(<<Member("last_full_sync",
                                JStr(mappingFile.sync_metadata.last_full_sync))>>))>>)

\* serializeMapping writing the Links without their comments
serializeMapping_dropsComments(mappingFile) ==
    JSONstringify(mappingObject(
        [mappingFile EXCEPT !.mappings =
            [k \in 1..Len(@) |-> [@[k] EXCEPT !.link.comments = NoComments]]]))

serializeMapping(mappingFile) == JSONstringify(mappingObject(mappingFile))

\* what deserializeMapping does: it throws, or returns value
Deserialized(threw, value) == [threw |-> threw, value |-> value]

deserializeMapping(text, now) ==
    IF Blank(text) THEN Deserialized(FALSE, mappingObject(createEmptyMapping(now)))
    ELSE IF JSONparse(text).ok THEN Deserialized(FALSE, JSONparse(text).v)
    ELSE Deserialized(TRUE, JUndefined)

----------------------------------------------------------------------------
(* Diff algorithm (diff.ts).  An action refers to its record by reference; *)
(* pos is the record's position in the snapshot.                           *)

\* Object.keys(existingMapping.comments) throws a TypeError when comments is
\* undefined
getNewCommentsThrows(issue, existingMapping) ==
    /\ issue.comments # <<>>
    /\ existingMapping # None
    /\ "comments" \notin DOMAIN existingMapping[1]

getNewComments(issue, existingMapping, githubIssueNumber) ==
    LET syncedCommentIds ==
            IF existingMapping = None \/ "comments" \notin DOMAIN existingMapping[1]
            THEN {}
            ELSE DOMAIN existingMapping[1].comments
        new == SelectSeq(issue.comments, LAMBDA c : c.id \notin syncedCommentIds)
    IN  [k \in 1..Len(new) |->
            [beadsIssueId |-> issue.id,
             githubIssueNumber |-> githubIssueNumber,
             comment |-> new[k]]]

Action(type, issue, pos, number) ==
    [type |-> type, beadsIssue |-> issue, pos |-> pos, githubIssueNumber |-> number]

\* diffAction answering reopen for a stale record that is not closed
diffAction_reopens(issue, pos, mappingFile) ==
    LET existingMapping == getMapping(mappingFile, issue.id)
    IN  IF existingMapping = None
        THEN IF issue.external_ref # <<>> /\ parseExternalRef(issue.external_ref) # Null
             THEN Some(Action("adopt", issue, pos, parseExternalRef(issue.external_ref)))
             ELSE Some(Action("create", issue, pos, Null))
        ELSE IF needsUpdate(issue, existingMapping[1])
             THEN IF issue.status = "closed"
                  THEN Some(Action("close", issue, pos,
                                   existingMapping[1].github_issue_number))
                  ELSE Some(Action("reopen", issue, pos,
                                   existingMapping[1].github_issue_number))
             ELSE None

\* the action pushed for the record at position pos (None when none is)
diffAction(issue, pos, mappingFile) ==
    LET existingMapping == getMapping(mappingFile, issue.id)
    IN  IF existingMapping = None
        THEN IF issue.external_ref # <<>> /\ parseExternalRef(issue.external_ref) # Null
             THEN Some(Action("adopt", issue, pos, parseExternalRef(issue.external_ref)))
             ELSE Some(Action("create", issue, pos, Null))
        ELSE IF needsUpdate(issue, existingMapping[1])
             THEN IF issue.status = "closed"
                  THEN Some(Action("close", issue, pos,
                                   existingMapping[1].github_issue_number))
                  ELSE Some(Action("update", issue, pos,
                                   existingMapping[1].github_issue_number))
             ELSE None

\* diffComments looking for new comments only when the record is stale
diffComments_onlyWhenStale(issue, mappingFile) ==
    LET existingMapping == getMapping(mappingFile, issue.id)
    IN  IF existingMapping = None
        THEN IF issue.external_ref # <<>> /\ parseExternalRef(issue.external_ref) # Null
             THEN getNewComments(issue, None, parseExternalRef(issue.external_ref))
             ELSE <<>>
        ELSE IF needsUpdate(issue, existingMapping[1])
             THEN getNewComments(issue, existingMapping,
                                 existingMapping[1].github_issue_number)
             ELSE <<>>

\* diffComments looking for new comments of a record that is created too
diffComments_onCreate(issue, mappingFile) ==
    LET existingMapping == getMapping(mappingFile, issue.id)
    IN  IF existingMapping = None
        THEN getNewComments(issue, None, parseExternalRef(issue.external_ref))
        ELSE getNewComments(issue, existingMapping,
                            existingMapping[1].github_issue_number)

\* the comment actions pushed for the record
diffComments(issue, mappingFile) ==
    LET existingMapping == getMapping(mappingFile, issue.id)
    IN  IF existingMapping = None
        THEN IF issue.external_ref # <<>> /\ parseExternalRef(issue.external_ref) # Null
             THEN getNewComments(issue, None, parseExternalRef(issue.external_ref))
             ELSE <<>>
        ELSE getNewComments(issue, existingMapping,
                            existingMapping[1].github_issue_number)

RECURSIVE diffLoop(_, _, _, _)
diffLoop(list, k, mappingFile, acc) ==
    IF k > Len(list) THEN acc
    ELSE diffLoop(list, k + 1, mappingFile,
            [actions |-> acc.actions \o diffAction(list[k], k, mappingFile),
             commentActions |-> acc.commentActions \o diffComments(list[k], mappingFile)])

\* computeDiff ends by an exception of getNewComments
computeDiffThrows(list, mappingFile) ==
    \E k \in 1..Len(list) :
        getNewCommentsThrows(list[k], getMapping(mappingFile, list[k].id))

\* computeDiff testing a mapped id against the first record only
computeDiff_firstRecordOnly(list, mappingFile) ==
    LET beadsIds == {list[k].id : k \in 1..(IF Len(list) > 0 THEN 1 ELSE 0)}
        mappedIds == getMappedBeadsIds(mappingFile)
        loop == diffLoop(list, 1, mappingFile, [actions |-> <<>>, commentActions |-> <<>>])
    IN  [actions |-> loop.actions,
         commentActions |-> loop.commentActions,
         deletedIssueIds |-> SelectSeq(mappedIds, LAMBDA id : id \notin beadsIds)]

\* computeDiff putting each record's actions in front of the earlier ones
computeDiff_newestFirst(list, mappingFile) ==
    LET beadsIds == {list[k].id : k \in 1..Len(list)}
        mappedIds == getMappedBeadsIds(mappingFile)
        loop == diffLoop(list, 1, mappingFile, [actions |-> <<>>, commentActions |-> <<>>])
        Reverse(q) == [k \in 1..Len(q) |-> q[Len(q) + 1 - k]]
    IN  [actions |-> Reverse(loop.actions),
         commentActions |-> Reverse(loop.commentActions),
         deletedIssueIds |-> SelectSeq(mappedIds, LAMBDA id : id \notin beadsIds)]

computeDiff(list, mappingFile) ==
    LET beadsIds == {list[k].id : k \in 1..Len(list)}
        mappedIds == getMappedBeadsIds(mappingFile)
        loop == diffLoop(list, 1, mappingFile, [actions |-> <<>>, commentActions |-> <<>>])
    IN  [actions |-> loop.actions,
         commentActions |-> loop.commentActions,
         deletedIssueIds |-> SelectSeq(mappedIds, LAMBDA id : id \notin beadsIds)]

----------------------------------------------------------------------------
(* Orchestrator (sync.ts) *)

\* filterIssues without the label filter
filterIssues_anyLabel(list, cfg) ==
    SelectSeq(list, LAMBDA issue :
        /\ issue.status \in cfg.syncStatuses
        /\ (issue.priority = Null \/ issue.priority \in cfg.syncPriorities))

filterIssues(list, cfg) ==
    SelectSeq(list, LAMBDA issue :
        /\ issue.status \in cfg.syncStatuses
        /\ (issue.priority = Null \/ issue.priority \in cfg.syncPriorities)
        /\ (cfg.syncLabels = {} \/ cfg.syncLabels \cap issue.labels # {}))

\* one mirror call, as the run's log keeps it
Call(op, number, beadsId, ok) ==
    [op |-> op, number |-> number, beadsId |-> beadsId, ok |-> ok]

SyncError(beadsId, action, message) ==
    [beadsIssueId |-> beadsId, action |-> action, message |-> message]

\* the number and id the mirror gives to the next issue it creates
\* (1 and 2 are the issues linked before the first run)
NextIssueNumber(gh) == Len(gh.created) + 3
IssueId(number) == number + 1000
NextCommentId(gh) == gh.comments + 100

\* what the mirror calls of one action can do: every call succeeds; the
\* first or the second call throws; getIssue answers 404
Outcomes(type) ==
    CASE type = "create" -> {"ok", "fail1"}
      [] type = "update" -> {"ok", "fail1"}
      [] type = "close" -> {"ok", "fail1", "fail2"}
      [] type = "adopt" -> {"ok", "fail1", "null", "fail2"}
      [] type = "reopen" -> {"ok", "fail1", "fail2"}

Executed(m, gh, error, log) ==
    [mapping |-> m, github |-> gh, error |-> error, calls |-> log]

\* touchMapping replacing the Link by a fresh one
touchMapping_freshLink(m, beadsIssue, now) ==
    LET existingMapping == getMapping(m, beadsIssue.id)
    IN  IF existingMapping = None THEN m
        ELSE setMapping(m, beadsIssue.id,
                createIssueMapping(existingMapping[1].github_issue_number,
                                   existingMapping[1].github_issue_id,
                                   beadsIssue.updated_at, FALSE, now))

\* the Link of beadsIssue with the watermark moved to its updated_at
touchMapping(m, beadsIssue, now) ==
    LET existingMapping == getMapping(m, beadsIssue.id)
    IN  IF existingMapping = None THEN m
        ELSE setMapping(m, beadsIssue.id,
                [existingMapping[1] EXCEPT !.beads_updated_at = beadsIssue.updated_at,
                                           !.last_sync_at = now])

\* executeCreate recording the Link as adopted and without the mirror's id
executeCreate_wrongLink(action, m, gh, out, now) ==
    LET beadsIssue == action.beadsIssue
        number == NextIssueNumber(gh)
    IN  IF out = "fail1"
        THEN Executed(m, gh, Some(SyncError(beadsIssue.id, "create", "Error")),
                      <<Call("createIssue", Null, beadsIssue.id, FALSE)>>)
        ELSE Executed(
                setMapping(m, beadsIssue.id,
                    createIssueMapping(number, number, beadsIssue.updated_at,
                                       TRUE, now)),
                [gh EXCEPT !.created =
                    Append(@, [number |-> number, beadsId |-> beadsIssue.id])],
                None,
                <<Call("createIssue", number, beadsIssue.id, TRUE)>>)

executeCreate(action, m, gh, out, now) ==
    LET beadsIssue == action.beadsIssue
        number == NextIssueNumber(gh)
    IN  IF out = "fail1"
        THEN Executed(m, gh, Some(SyncError(beadsIssue.id, "create", "Error")),
                      <<Call("createIssue", Null, beadsIssue.id, FALSE)>>)
        ELSE Executed(
                setMapping(m, beadsIssue.id,
                    createIssueMapping(number, IssueId(number), beadsIssue.updated_at,
                                       FALSE, now)),
                [gh EXCEPT !.created =
                    Append(@, [number |-> number, beadsId |-> beadsIssue.id])],
                None,
                <<Call("createIssue", number, beadsIssue.id, TRUE)>>)

executeUpdate(action, m, gh, out, now) ==
    LET beadsIssue == action.beadsIssue
        number == action.githubIssueNumber
    IN  IF out = "fail1"
        THEN Executed(m, gh, Some(SyncError(beadsIssue.id, "update", "Error")),
                      <<Call("updateIssue", number, beadsIssue.id, FALSE)>>)
        ELSE Executed(touchMapping(m, beadsIssue, now), gh, None,
                      <<Call("updateIssue", number, beadsIssue.id, TRUE)>>)

\* executeClose moving the watermark as soon as updateIssue has succeeded
executeClose_earlyWatermark(action, m, gh, out, now) ==
    LET beadsIssue == action.beadsIssue
        number == action.githubIssueNumber
    IN  IF out = "fail1"
        THEN Executed(m, gh, Some(SyncError(beadsIssue.id, "close", "Error")),
                      <<Call("updateIssue", number, beadsIssue.id, FALSE)>>)
        ELSE IF out = "fail2"
        THEN Executed(touchMapping(m, beadsIssue, now), gh,
                      Some(SyncError(beadsIssue.id, "close", "Error")),
                      <<Call("updateIssue", number, beadsIssue.id, TRUE),
                        Call("closeIssue", number, beadsIssue.id, FALSE)>>)
        ELSE Executed(touchMapping(m, beadsIssue, now),
                      [gh EXCEPT !.closed = @ \cup {number}], None,
                      <<Call("updateIssue", number, beadsIssue.id, TRUE),
                        Call("closeIssue", number, beadsIssue.id, TRUE)>>)

\* executeClose closing first and pushing the body afterwards
executeClose_closeFirst(action, m, gh, out, now) ==
    LET beadsIssue == action.beadsIssue
        number == action.githubIssueNumber
    IN  IF out = "fail1"
        THEN Executed(m, gh, Some(SyncError(beadsIssue.id, "close", "Error")),
                      <<Call("closeIssue", number, beadsIssue.id, FALSE)>>)
        ELSE IF out = "fail2"
        THEN Executed(m, [gh EXCEPT !.closed = @ \cup {number}],
                      Some(SyncError(beadsIssue.id, "close", "Error")),
                      <<Call("closeIssue", number, beadsIssue.id, TRUE),
                        Call("updateIssue", number, beadsIssue.id, FALSE)>>)
        ELSE Executed(touchMapping(m, beadsIssue, now),
                      [gh EXCEPT !.closed = @ \cup {number}], None,
                      <<Call("closeIssue", number, beadsIssue.id, TRUE),
                        Call("updateIssue", number, beadsIssue.id, TRUE)>>)

executeClose(action, m, gh, out, now) ==
    LET beadsIssue == action.beadsIssue
        number == action.githubIssueNumber
    IN  IF out = "fail1"
        THEN Executed(m, gh, Some(SyncError(beadsIssue.id, "close", "Error")),
                      <<Call("updateIssue", number, beadsIssue.id, FALSE)>>)
        ELSE IF out = "fail2"
        THEN Executed(m, gh, Some(SyncError(beadsIssue.id, "close", "Error")),
                      <<Call("updateIssue", number, beadsIssue.id, TRUE),
                        Call("closeIssue", number, beadsIssue.id, FALSE)>>)
        ELSE Executed(touchMapping(m, beadsIssue, now),
                      [gh EXCEPT !.closed = @ \cup {number}], None,
                      <<Call("updateIssue", number, beadsIssue.id, TRUE),
                        Call("closeIssue", number, beadsIssue.id, TRUE)>>)

\* executeAdopt going on when getIssue answers that the issue is absent
executeAdopt_ignoresMissing(action, m, gh, out, now) ==
    LET beadsIssue == action.beadsIssue
        number == action.githubIssueNumber
    IN  IF out = "fail1"
        THEN Executed(m, gh, Some(SyncError(beadsIssue.id, "adopt", "Error")),
                      <<Call("getIssue", number, beadsIssue.id, FALSE)>>)
        ELSE IF out = "fail2"
        THEN Executed(m, gh, Some(SyncError(beadsIssue.id, "adopt", "Error")),
                      <<Call("getIssue", number, beadsIssue.id, TRUE),
                        Call("updateIssue", number, beadsIssue.id, FALSE)>>)
        ELSE Executed(
                setMapping(m, beadsIssue.id,
                    createIssueMapping(number, IssueId(number), beadsIssue.updated_at,
                                       TRUE, now)),
                gh, None,
                <<Call("getIssue", number, beadsIssue.id, TRUE),
                  Call("updateIssue", number, beadsIssue.id, TRUE)>>)

executeAdopt(action, m, gh, out, now) ==
    LET beadsIssue == action.beadsIssue
        number == action.githubIssueNumber
    IN  IF out = "fail1"
        THEN Executed(m, gh, Some(SyncError(beadsIssue.id, "adopt", "Error")),
                      <<Call("getIssue", number, beadsIssue.id, FALSE)>>)
        ELSE IF out = "null"
        THEN Executed(m, gh, Some(SyncError(beadsIssue.id, "adopt", "not found")),
                      <<Call("getIssue", number, beadsIssue.id, TRUE)>>)
        ELSE IF out = "fail2"
        THEN Executed(m, gh, Some(SyncError(beadsIssue.id, "adopt", "Error")),
                      <<Call("getIssue", number, beadsIssue.id, TRUE),
                        Call("updateIssue", number, beadsIssue.id, FALSE)>>)
        ELSE Executed(
                setMapping(m, beadsIssue.id,
                    createIssueMapping(number, IssueId(number), beadsIssue.updated_at,
                                       TRUE, now)),
                gh, None,
                <<Call("getIssue", number, beadsIssue.id, TRUE),
                  Call("updateIssue", number, beadsIssue.id, TRUE)>>)

executeReopen(action, m, gh, out, now) ==
    LET beadsIssue == action.beadsIssue
        number == action.githubIssueNumber
    IN  IF out = "fail1"
        THEN Executed(m, gh, Some(SyncError(beadsIssue.id, "reopen", "Error")),
                      <<Call("reopenIssue", number, beadsIssue.id, FALSE)>>)
        ELSE IF out = "fail2"
        THEN Executed(m, [gh EXCEPT !.closed = @ \ {number}],
                      Some(SyncError(beadsIssue.id, "reopen", "Error")),
                      <<Call("reopenIssue", number, beadsIssue.id, TRUE),
                        Call("updateIssue", number, beadsIssue.id, FALSE)>>)
        ELSE Executed(m, [gh EXCEPT !.closed = @ \ {number}], None,
                      <<Call("reopenIssue", number, beadsIssue.id, TRUE),
                        Call("updateIssue", number, beadsIssue.id, TRUE)>>)

\* executeAction whose close case lacks the dry-run return
executeAction_dryRunCloses(action, m, gh, cfg, out, now) ==
    IF cfg.dryRun /\ action.type # "close" THEN Executed(m, gh, None, <<>>)
    ELSE CASE action.type = "create" -> executeCreate(action, m, gh, out, now)
           [] action.type = "update" -> executeUpdate(action, m, gh, out, now)
           [] action.type = "close" -> executeClose(action, m, gh, out, now)
           [] action.type = "adopt" -> executeAdopt(action, m, gh, out, now)
           [] action.type = "reopen" -> executeReopen(action, m, gh, out, now)

executeAction(action, m, gh, cfg, out, now) ==
    IF cfg.dryRun THEN Executed(m, gh, None, <<>>)
    ELSE CASE action.type = "create" -> executeCreate(action, m, gh, out, now)
           [] action.type = "update" -> executeUpdate(action, m, gh, out, now)
           [] action.type = "close" -> executeClose(action, m, gh, out, now)
           [] action.type = "adopt" -> executeAdopt(action, m, gh, out, now)
           [] action.type = "reopen" -> executeReopen(action, m, gh, out, now)

\* handleDeletedIssues: outs[k] tells whether closeIssue succeeds for deletedIds[k]
RECURSIVE deletedLoop(_, _, _, _, _, _)
deletedLoop(deletedIds, k, m, cfg, outs, acc) ==
    IF k > Len(deletedIds) THEN acc
    ELSE LET beadsId == deletedIds[k]
             issueMapping == getMapping(m, beadsId)
         IN  IF issueMapping = None \/ cfg.dryRun
             THEN deletedLoop(deletedIds, k + 1, m, cfg, outs, acc)
             ELSE deletedLoop(deletedIds, k + 1, m, cfg, outs,
                    [closedCount |-> acc.closedCount + (IF outs[k] THEN 1 ELSE 0),
                     closed |-> IF outs[k]
                                THEN acc.closed \cup {issueMapping[1].github_issue_number}
                                ELSE acc.closed,
                     calls |-> Append(acc.calls,
                        Call("closeIssue", issueMapping[1].github_issue_number,
                             beadsId, outs[k]))])

\* handleDeletedIssues without the test of closeDeleted
handleDeletedIssues_ignoresFlag(deletedIds, m, gh, cfg, outs) ==
    deletedLoop(deletedIds, 1, m, cfg, outs,
                [closedCount |-> 0, closed |-> gh.closed, calls |-> <<>>])

\* closedCount, the mirror's closed issues afterwards, and the calls made
handleDeletedIssues(deletedIds, m, gh, cfg, outs) ==
    IF ~cfg.closeDeleted THEN [closedCount |-> 0, closed |-> gh.closed, calls |-> <<>>]
    ELSE deletedLoop(deletedIds, 1, m, cfg, outs,
                     [closedCount |-> 0, closed |-> gh.closed, calls |-> <<>>])

\* formatBeadsComment: new Date(created_at).toISOString() throws a RangeError
\* on a string that is not a date
formatBeadsCommentThrows(comment) == DateParse(comment.created_at) = NaN

\* syncComments: outs[k] tells whether createComment succeeds for commentActions[k]
RECURSIVE commentLoop(_, _, _, _, _)
commentLoop(commentActions, k, dryRun, outs, acc) ==
    IF k > Len(commentActions) THEN acc
    ELSE LET action == commentActions[k]
         IN  IF formatBeadsCommentThrows(action.comment)
             THEN [acc EXCEPT !.threw = TRUE]
             ELSE IF dryRun
             THEN commentLoop(commentActions, k + 1, dryRun, outs, acc)
             ELSE IF ~outs[k]
             THEN commentLoop(commentActions, k + 1, dryRun, outs,
                    [acc EXCEPT !.calls = Append(@,
                        Call("createComment", action.githubIssueNumber,
                             action.beadsIssueId, FALSE))])
             ELSE commentLoop(commentActions, k + 1, dryRun, outs,
                    [mapping |-> setCommentMapping(acc.mapping, action.beadsIssueId,
                                    action.comment.id, NextCommentId(acc.github)),
                     github |-> [acc.github EXCEPT !.comments = @ + 1],
                     synced |-> acc.synced + 1,
                     threw |-> FALSE,
                     calls |-> Append(acc.calls,
                        Call("createComment", action.githubIssueNumber,
                             action.beadsIssueId, TRUE))])

syncComments(commentActions, m, gh, dryRun, outs) ==
    commentLoop(commentActions, 1, dryRun, outs,
        [mapping |-> m, github |-> gh, synced |-> 0, threw |-> FALSE, calls |-> <<>>])

NewResult ==
    [created |-> 0, updated |-> 0, closed |-> 0, reopened |-> 0, adopted |-> 0,
     commentsSynced |-> 0, errors |-> <<>>]

EmptyDiff == [actions |-> <<>>, commentActions |-> <<>>, deletedIssueIds |-> <<>>]

\* the counters leaving adoptions out
count_skipsAdopt(res, type) ==
    CASE type = "create" -> [res EXCEPT !.created = @ + 1]
      [] type = "update" -> [res EXCEPT !.updated = @ + 1]
      [] type = "close" -> [res EXCEPT !.closed = @ + 1]
      [] type = "reopen" -> [res EXCEPT !.reopened = @ + 1]
      [] type = "adopt" -> res

count(res, type) ==
    CASE type = "create" -> [res EXCEPT !.created = @ + 1]
      [] type = "update" -> [res EXCEPT !.updated = @ + 1]
      [] type = "close" -> [res EXCEPT !.closed = @ + 1]
      [] type = "reopen" -> [res EXCEPT !.reopened = @ + 1]
      [] type = "adopt" -> [res EXCEPT !.adopted = @ + 1]

----------------------------------------------------------------------------
(* runSync, step by step *)

\* runSync is entered: filter, ensureLabels, computeDiff
StartRun ==
    /\ pc \in {"idle", "done", "threw"}
    /\ run < MaxRuns
    /\ run' = run + 1
    /\ clock' = clock + 1
    /\ result' = NewResult
    /\ attempts' = <<>>
    /\ idx' = 1
    /\ \E labelsOk \in BOOLEAN :
        LET filteredIssues == filterIssues(issues, config)
            returns == labelsOk /\ ~computeDiffThrows(filteredIssues, mapping)
        IN  /\ clean' = (clean /\ labelsOk)
            /\ config.dryRun => labelsOk
            /\ calls' = IF config.dryRun THEN <<>>
                        ELSE <<Call("ensureLabels", Null, "", labelsOk)>>
            /\ diff' = IF returns THEN computeDiff(filteredIssues, mapping) ELSE EmptyDiff
            /\ pc' = IF returns THEN "actions" ELSE "threw"
    /\ UNCHANGED <<issues, config, mapping, github>>
    /\ UNCHANGED <<content, returned>>

\* the action loop giving up at the first failed action
ExecuteAction_abortOnError ==
    /\ pc = "actions"
    /\ idx <= Len(diff.actions)
    /\ \E out \in (IF config.dryRun THEN {"ok"} ELSE Outcomes(diff.actions[idx].type)) :
        LET action == diff.actions[idx]
            done == executeAction(action, mapping, github, config, out, clock)
        IN  /\ mapping' = done.mapping
            /\ github' = done.github
            /\ calls' = calls \o done.calls
            /\ attempts' = Append(attempts, [action |-> action, out |-> out])
            /\ clean' = (clean /\ out = "ok")
            /\ result' = IF done.error # None
                         THEN [result EXCEPT !.errors = Append(@, done.error[1])]
                         ELSE IF ~config.dryRun THEN count(result, action.type)
                         ELSE result
            /\ idx' = IF done.error # None THEN Len(diff.actions) + 1 ELSE idx + 1
    /\ UNCHANGED <<issues, config, clock, pc, run, diff>>
    /\ UNCHANGED <<content, returned>>

\* one iteration of the action loop
ExecuteAction ==
    /\ pc = "actions"
    /\ idx <= Len(diff.actions)
    /\ \E out \in (IF config.dryRun THEN {"ok"} ELSE Outcomes(diff.actions[idx].type)) :
        LET action == diff.actions[idx]
            done == executeAction(action, mapping, github, config, out, clock)
        IN  /\ mapping' = done.mapping
            /\ github' = done.github
            /\ calls' = calls \o done.calls
            /\ attempts' = Append(attempts, [action |-> action, out |-> out])
            /\ clean' = (clean /\ out = "ok")
            /\ result' = IF done.error # None
                         THEN [result EXCEPT !.errors = Append(@, done.error[1])]
                         ELSE IF ~config.dryRun THEN count(result, action.type)
                         ELSE result
    /\ idx' = idx + 1
    /\ UNCHANGED <<issues, config, clock, pc, run, diff>>
    /\ UNCHANGED <<content, returned>>

\* the action loop is over: handleDeletedIssues
HandleDeletedIssues ==
    /\ pc = "actions"
    /\ idx > Len(diff.actions)
    /\ \E outs \in [1..Len(diff.deletedIssueIds) -> BOOLEAN] :
        LET done == handleDeletedIssues(diff.deletedIssueIds, mapping, github,
                                        config, outs)
        IN  /\ result' = [result EXCEPT !.closed = @ + done.closedCount]
            /\ github' = [github EXCEPT !.closed = done.closed]
            /\ calls' = calls \o done.calls
            /\ clean' = (clean /\ \A k \in 1..Len(done.calls) : done.calls[k].ok)
    /\ pc' = "comments"
    /\ UNCHANGED <<issues, config, mapping, clock, run, diff, idx, attempts>>
    /\ UNCHANGED <<content, returned>>

\* syncComments entered before the action loop is over
SyncComments_beforeActions ==
    /\ pc \in {"actions", "comments"}
    /\ \E outs \in [1..Len(diff.commentActions) -> BOOLEAN] :
        IF config.syncComments
        THEN LET done == syncComments(diff.commentActions, mapping, github,
                                      config.dryRun, outs)
             IN  /\ github' = done.github
                 /\ calls' = calls \o done.calls
                 /\ clean' = (/\ clean
                              /\ ~done.threw
                              /\ \A k \in 1..Len(done.calls) : done.calls[k].ok)
                 /\ IF done.threw
                    THEN /\ mapping' = done.mapping
                         /\ result' = result
                         /\ pc' = "threw"
                    ELSE /\ mapping' = IF config.dryRun THEN done.mapping
                                       ELSE updateLastSyncTime(done.mapping, clock)
                         /\ result' = [result EXCEPT !.commentsSynced = done.synced]
                         /\ pc' = "done"
        ELSE /\ mapping' = IF config.dryRun THEN mapping
                           ELSE updateLastSyncTime(mapping, clock)
             /\ UNCHANGED <<github, calls, result, clean>>
             /\ pc' = "done"
    /\ UNCHANGED <<issues, config, clock, run, diff, idx, attempts>>
    /\ UNCHANGED <<content, returned>>

\* syncComments, updateLastSyncTime, return
SyncComments ==
    /\ pc = "comments"
    /\ \E outs \in [1..Len(diff.commentActions) -> BOOLEAN] :
        IF config.syncComments
        THEN LET done == syncComments(diff.commentActions, mapping, github,
                                      config.dryRun, outs)
             IN  /\ github' = done.github
                 /\ calls' = calls \o done.calls
                 /\ clean' = (/\ clean
                              /\ ~done.threw
                              /\ \A k \in 1..Len(done.calls) : done.calls[k].ok)
                 /\ IF done.threw
                    THEN /\ mapping' = done.mapping
                         /\ result' = result
                         /\ pc' = "threw"
                    ELSE /\ mapping' = IF config.dryRun THEN done.mapping
                                       ELSE updateLastSyncTime(done.mapping, clock)
                         /\ result' = [result EXCEPT !.commentsSynced = done.synced]
                         /\ pc' = "done"
        ELSE /\ mapping' = IF config.dryRun THEN mapping
                           ELSE updateLastSyncTime(mapping, clock)
             /\ UNCHANGED <<github, calls, result, clean>>
             /\ pc' = "done"
    /\ UNCHANGED <<issues, config, clock, run, diff, idx, attempts>>
    /\ UNCHANGED <<content, returned>>

Next == StartRun \/ ExecuteAction \/ HandleDeletedIssues \/ SyncComments

----------------------------------------------------------------------------
(* Inputs *)

SeqsUpTo(S, n) == UNION {[1..k -> S] : k \in 0..n}

GH1 == <<"g", "h", "-", "1">>

\* comments of the source tracker: one that renders, one whose date does not parse
Comments == {[id |-> "c1", created_at |-> "t1"], [id |-> "c2", created_at |-> "bad"]}

\* the records of a snapshot of several: "a", which the map may link, at
\* either date; "b", which it does not, with or without an adoption reference
Records ==
    {r \in [id : Ids,
            status : {"open", "closed"},
            priority : {Null},
            labels : {{}},
            updated_at : {"t1", "t2"},
            external_ref : {<<>>, GH1},
            comments : {<<>>}] :
        /\ r.id = "a" => r.external_ref = <<>>
        /\ r.id = "b" => r.updated_at = "t2"}

\* a record with comments
RecordsCommented ==
    [id : {"a"},
     status : {"open", "closed"},
     priority : {Null},
     labels : {{}},
     updated_at : {"t1", "t2"},
     external_ref : {<<>>, GH1},
     comments : SeqsUpTo(Comments, MaxComments) \ {<<>>}]

\* up to MaxIssues records, ids repeated or not
Snapshots == SeqsUpTo(Records, MaxIssues)

Configs ==
    [dryRun : BOOLEAN,
     syncComments : BOOLEAN,
     closeDeleted : BOOLEAN,
     syncStatuses : {Statuses},
     syncPriorities : {0..4},
     syncLabels : {{}}]

\* maps left by earlier runs: "a" linked to mirror issue 1, "b" to 2, synced at t1
LinkedBefore(id) ==
    [id |-> id,
     link |-> createIssueMapping(IF id = "a" THEN 1 ELSE 2,
                                 IssueId(IF id = "a" THEN 1 ELSE 2), "t1", FALSE, 0)]

InitMaps ==
    {[createEmptyMapping(0) EXCEPT !.mappings = e] :
        e \in {<<>>, <<LinkedBefore("a")>>}}

\* a map whose Links outnumber the records of the snapshot
BothLinked == [createEmptyMapping(0) EXCEPT
                  !.mappings = <<LinkedBefore("a"), LinkedBefore("b")>>]

Init ==
    /\ \/ /\ issues \in Snapshots
          /\ config \in {c \in Configs : ~c.syncComments}
          /\ mapping \in InitMaps
       \/ /\ issues \in {<<r>> : r \in RecordsCommented}
          /\ config \in Configs
          /\ mapping \in InitMaps
       \/ /\ issues \in {<<>>} \cup {<<r>> : r \in {q \in Records : q.id = "b"}}
          /\ config \in {c \in Configs : ~c.syncComments}
          /\ mapping = BothLinked
    /\ github \in {[created |-> <<>>, comments |-> 0, closed |-> c] : c \in SUBSET {1}}
    /\ clock = 0
    /\ pc = "idle"
    /\ run = 0
    /\ diff = EmptyDiff
    /\ idx = 1
    /\ result = NewResult
    /\ calls = <<>>
    /\ attempts = <<>>
    /\ clean = TRUE
    /\ content = <<>>
    /\ returned = None

Spec == Init /\ [][Next]_vars

----------------------------------------------------------------------------
(* The diff algorithm on its own, over a wider range of inputs *)

Alphabet == {"g", "h", "-", "0", "1", "x"}

\* every string of up to MaxRefLen characters
RefStrings == SeqsUpTo(Alphabet, MaxRefLen)

\* the records of a snapshot of several; those of "a" may carry a comment
RecordsDiff ==
    {r \in [id : Ids \cup ObjectPrototypeKeys,
            status : {"open", "closed"},
            priority : {Null},
            labels : {{}},
            updated_at : {"t1", "t1z", "t2"},
            external_ref : {<<>>},
            comments : {<<>>, <<[id |-> "c1", created_at |-> "t1"]>>}] :
        r.comments # <<>> => r.id = "a"}

\* one record of any status, date, adoption and comments
RecordsOne ==
    [id : Ids \cup ObjectPrototypeKeys,
     status : Statuses,
     priority : {Null},
     labels : {{}},
     updated_at : {"t1", "t1z", "t2", "bad"},
     external_ref : {<<>>, GH1},
     comments : SeqsUpTo(Comments, MaxComments)]

\* one record with any external_ref
RecordsRef ==
    [id : {"a"},
     status : {"open"},
     priority : {Null},
     labels : {{}},
     updated_at : {"t1"},
     external_ref : RefStrings,
     comments : {<<>>, <<[id |-> "c1", created_at |-> "t1"]>>}]

LinksDiff(number) ==
    [github_issue_number : {number},
     github_issue_id : {IssueId(number)},
     last_sync_at : {0},
     beads_updated_at : {"t1", "t2", "bad"},
     adopted_from_external_ref : {FALSE},
     comments : {NoComments, [c \in {"c1"} |-> 100]}]

EntriesDiff(id, number) ==
    {<<>>} \cup {<<[id |-> id, link |-> l]>> : l \in LinksDiff(number)}

MapsDiff ==
    {[createEmptyMapping(0) EXCEPT !.mappings = ea \o eb] :
        ea \in EntriesDiff("a", 1), eb \in EntriesDiff("b", 2)}

\* a record of a pair that both carry comments
RecordsPair ==
    [id : Ids,
     status : {"open"},
     priority : {Null},
     labels : {{}},
     updated_at : {"t2"},
     external_ref : {<<>>, GH1},
     comments : {<<c>> : c \in Comments} \cup
                {p \in [1..2 -> Comments] : p[1] # p[2]}]

InitDiff ==
    /\ \/ /\ issues \in SeqsUpTo(RecordsDiff, MaxIssues)
          /\ mapping \in MapsDiff
       \/ /\ issues \in {<<r, q>> : r \in RecordsPair, q \in RecordsPair}
          /\ mapping \in MapsDiff
       \/ /\ issues \in {<<r>> : r \in RecordsOne}
          /\ mapping \in MapsDiff
       \/ /\ issues \in {<<r>> : r \in RecordsRef}
          /\ mapping \in InitMaps
    /\ config = [dryRun |-> TRUE, syncComments |-> TRUE, closeDeleted |-> TRUE,
                 syncStatuses |-> Statuses, syncPriorities |-> 0..4, syncLabels |-> {}]
    /\ github = [created |-> <<>>, comments |-> 0, closed |-> {}]
    /\ clock = 0
    /\ pc = "idle"
    /\ run = 0
    /\ diff = EmptyDiff
    /\ idx = 1
    /\ result = NewResult
    /\ calls = <<>>
    /\ attempts = <<>>
    /\ clean = TRUE
    /\ content = <<>>
    /\ returned = None

\* computeDiff deleting the Links of the ids it reports as deleted
Diff_dropsDeleted ==
    /\ pc = "idle"
    /\ IF computeDiffThrows(issues, mapping)
       THEN diff' = diff /\ pc' = "threw" /\ mapping' = mapping
       ELSE /\ diff' = computeDiff(issues, mapping)
            /\ pc' = "diffed"
            /\ mapping' = [mapping EXCEPT !.mappings =
                    SelectSeq(@, LAMBDA e : \E k \in 1..Len(issues) : issues[k].id = e.id)]
    /\ UNCHANGED <<issues, config, github, clock, run, idx, result,
                   calls, attempts, clean>>
    /\ UNCHANGED <<content, returned>>

\* computeDiff is applied to the snapshot and the map
Diff ==
    /\ pc = "idle"
    /\ IF computeDiffThrows(issues, mapping)
       THEN diff' = diff /\ pc' = "threw"
       ELSE diff' = computeDiff(issues, mapping) /\ pc' = "diffed"
    /\ UNCHANGED <<issues, config, mapping, github, clock, run, idx, result,
                   calls, attempts, clean>>
    /\ UNCHANGED <<content, returned>>

SpecDiff == InitDiff /\ [][Diff]_vars

----------------------------------------------------------------------------
(* Properties of a run *)

MutatingOps == {"createIssue", "updateIssue", "closeIssue", "reopenIssue", "createComment"}

\* the filters of the configuration let every record of the snapshot through
Unfiltered == filterIssues(issues, config) = issues

\* C1 (idempotence): once a run that was not a dry run, had comment sync on
\* and saw every mirror call succeed has returned, the diff of the same
\* snapshot against the map it left has no action and no comment action.
C1_Idempotence ==
    (/\ pc = "done"
     /\ run = 1
     /\ clean
     /\ ~config.dryRun
     /\ config.syncComments
     /\ Unfiltered)
    => /\ computeDiff(issues, mapping).actions = <<>>
       /\ computeDiff(issues, mapping).commentActions = <<>>

\* C2 (no duplicate mirror issues): createIssue succeeds at most once for a
\* source record id, over all runs.
C2_NoDuplicateIssues ==
    \A j, k \in 1..Len(github.created) :
        github.created[j].beadsId = github.created[k].beadsId => j = k

\* C3 (no redundant mutation): the second of two runs on the same snapshot and
\* configuration, every mirror call of both succeeding, makes no mutating call.
C3_SecondRunMutatesNothing ==
    (run = 2 /\ clean /\ ~config.dryRun)
    => \A k \in 1..Len(calls) : calls[k].op \notin MutatingOps

\* C6 (the run always returns): runSync never ends by propagating an exception.
C6_RunAlwaysReturns == pc # "threw"

\* C4 (a failed action leaves the map alone): whenever executeAction returns
\* an error, whichever of its mirror calls failed, the map is exactly what it
\* was before that action started.
C4_FailedActionLeavesMap ==
    [][(/\ pc = "actions"
        /\ pc' = "actions"
        /\ Len(result'.errors) > Len(result.errors))
       => mapping' = mapping]_vars

\* a close whose updateIssue succeeded and whose closeIssue failed has returned
C4_Witness ==
    /\ pc = "actions"
    /\ attempts # <<>>
    /\ attempts[Len(attempts)].out = "fail2"
    /\ attempts[Len(attempts)].action.type = "close"
    /\ result.errors # <<>>

FailedAttempts == SelectSeq(attempts, LAMBDA a : a.out # "ok")

\* C5 (failure isolation, no retry): every action of the diff is handed to
\* executeAction exactly once, in list order, whatever fails; each failed
\* action gives one error record with its source id and kind, in order, and
\* no mirror call is repeated after a failure.
C5_EveryActionAttemptedOnce ==
    /\ [k \in 1..Len(attempts) |-> attempts[k].action]
         = IF pc = "actions" THEN SubSeq(diff.actions, 1, idx - 1) ELSE diff.actions
    /\ [k \in 1..Len(result.errors) |->
            <<result.errors[k].beadsIssueId, result.errors[k].action>>]
         = [k \in 1..Len(FailedAttempts) |->
            <<FailedAttempts[k].action.beadsIssue.id, FailedAttempts[k].action.type>>]
    /\ pc = "actions" =>
         /\ Cardinality({k \in 1..Len(calls) : ~calls[k].ok})
              = Cardinality({k \in 1..Len(attempts) : attempts[k].out \in {"fail1", "fail2"}})
         /\ Cardinality({k \in 1..Len(calls) : calls[k].op = "createIssue"})
              = Cardinality({k \in 1..Len(attempts) :
                    ~config.dryRun /\ attempts[k].action.type = "create"})

\* the first of two actions failed and the second was still executed
C5_Witness ==
    /\ pc = "comments"
    /\ Len(attempts) = 2
    /\ attempts[1].out = "fail1"
    /\ attempts[2].out = "ok"
    /\ Len(result.errors) = 1

----------------------------------------------------------------------------
(* Properties of the diff *)

\* JavaScript's <= on numbers
NumLe(x, y) == x # NaN /\ y # NaN /\ x <= y

\* the Link a map holds for id, if it holds one
LinkIn(m, id) ==
    IF \E k \in 1..Len(m.mappings) : m.mappings[k].id = id
    THEN Some((CHOOSE e \in {m.mappings[k] : k \in 1..Len(m.mappings)} :
                    e.id = id).link)
    ELSE None

LinkOf(id) == LinkIn(mapping, id)

ActionsAt(i) == SelectSeq(diff.actions, LAMBDA a : a.pos = i)

\* C7 (staleness monotonicity): a record whose Link has a watermark that is
\* not older than its updated_at (equality included) gets no action.
C7_StalenessMonotonicity ==
    pc = "diffed" =>
        \A i \in 1..Len(issues) :
            (/\ LinkOf(issues[i].id) # None
             /\ NumLe(DateParse(issues[i].updated_at),
                      DateParse(LinkOf(issues[i].id)[1].beads_updated_at)))
            => \A j \in 1..Len(diff.actions) :
                    /\ diff.actions[j].pos # i
                    /\ diff.actions[j].beadsIssue # issues[i]

\* a record as old as its watermark, spelled differently, beside a record
\* that does get an action
C7_Witness ==
    /\ pc = "diffed"
    /\ diff.actions # <<>>
    /\ \E i \in 1..Len(issues) :
        /\ LinkOf(issues[i].id) # None
        /\ issues[i].updated_at = "t1z"
        /\ LinkOf(issues[i].id)[1].beads_updated_at = "t1"

\* C8 (deletion set exactness): deletedIssueIds lists exactly the ids that
\* have a Link and are the id of no record of the snapshot, each once.
C8_DeletionSetExact ==
    pc = "diffed" =>
        /\ {diff.deletedIssueIds[k] : k \in 1..Len(diff.deletedIssueIds)}
             = {mapping.mappings[k].id : k \in 1..Len(mapping.mappings)}
               \ {issues[k].id : k \in 1..Len(issues)}
        /\ \A j, k \in 1..Len(diff.deletedIssueIds) :
                diff.deletedIssueIds[j] = diff.deletedIssueIds[k] => j = k

\* of two linked ids one is the id of a record and the other is reported
C8_Witness ==
    /\ pc = "diffed"
    /\ Len(mapping.mappings) = 2
    /\ Len(issues) = 1
    /\ LinkOf(issues[1].id) # None
    /\ Len(diff.deletedIssueIds) = 1
    /\ diff.deletedIssueIds[1] # issues[1].id

\* C9 (per-record classification): a record without a Link gets exactly one
\* action, adopt when its external_ref matches the pattern and create
\* otherwise; a record with a Link gets close when stale and closed, update
\* with the Link's mirror number when stale and not closed, nothing when not
\* stale.
C9_Classification ==
    pc = "diffed" =>
        /\ \A j \in 1..Len(diff.actions) :
                /\ diff.actions[j].pos \in 1..Len(issues)
                /\ diff.actions[j].beadsIssue = issues[diff.actions[j].pos]
        /\ \A i \in 1..Len(issues) :
            LET r == issues[i]
                l == LinkOf(r.id)
                acts == ActionsAt(i)
                stale == NumGt(DateParse(r.updated_at), DateParse(l[1].beads_updated_at))
            IN  IF l = None
                THEN /\ Len(acts) = 1
                     /\ acts[1].type =
                            IF parseExternalRef(r.external_ref) # Null
                            THEN "adopt" ELSE "create"
                ELSE IF stale /\ r.status = "closed"
                THEN Len(acts) = 1 /\ acts[1].type = "close"
                ELSE IF stale
                THEN /\ Len(acts) = 1
                     /\ acts[1].type = "update"
                     /\ acts[1].githubIssueNumber = l[1].github_issue_number
                ELSE acts = <<>>

DigitSeq == <<"0", "1", "2", "3", "4", "5", "6", "7", "8", "9">>

RECURSIVE Pow10(_)
Pow10(n) == IF n = 0 THEN 1 ELSE 10 * Pow10(n - 1)

RECURSIVE SumTo(_, _)
SumTo(f, n) == IF n = 0 THEN 0 ELSE f[n] + SumTo(f, n - 1)

\* the number written by a string of decimal digits
DecimalValue(s) ==
    SumTo([k \in 1..Len(s) |->
            (CHOOSE d \in 0..9 : DigitSeq[d + 1] = s[k]) * Pow10(Len(s) - k)], Len(s))

\* "gh-" followed by one or more decimal digits and nothing else
IsGhNumber(s) ==
    /\ Len(s) > 3
    /\ SubSeq(s, 1, 3) = <<"g", "h", "-">>
    /\ \A k \in 4..Len(s) : \E d \in 1..10 : DigitSeq[d] = s[k]

\* C10 (adoption parse): a record without a Link whose external_ref is "gh-"
\* followed only by decimal digits gets exactly one action, adopt, targeting
\* that number; with any other external_ref it gets exactly one action, create.
C10_AdoptionParse ==
    pc = "diffed" =>
        \A i \in 1..Len(issues) :
            LinkOf(issues[i].id) = None =>
                LET ref == issues[i].external_ref
                    acts == ActionsAt(i)
                IN  /\ Len(acts) = 1
                    /\ IF IsGhNumber(ref)
                       THEN /\ acts[1].type = "adopt"
                            /\ acts[1].githubIssueNumber
                                 = DecimalValue(SubSeq(ref, 4, Len(ref)))
                       ELSE acts[1].type = "create"

\* the comment actions of the diff for comment c of source id
CommentActionsFor(id, c) ==
    {k \in 1..Len(diff.commentActions) :
        /\ diff.commentActions[k].beadsIssueId = id
        /\ diff.commentActions[k].comment = c}

\* the places of the snapshot where a record of source id carries comment c
OccurrencesOf(id, c) ==
    UNION {{<<i, j>> : j \in {j \in 1..Len(issues[i].comments) :
                                issues[i].id = id /\ issues[i].comments[j] = c}} :
           i \in 1..Len(issues)}

\* C11 (comment dedup independent of staleness): for a record that has a
\* Link, stale or not, the diff holds one comment action for each comment of
\* the record whose id is no key of the Link's comments, none for a comment
\* whose id is a key, and each carries the Link's mirror issue number.
C11_CommentDedup ==
    pc = "diffed" =>
        \A i \in 1..Len(issues) :
            LET id == issues[i].id
                l == LinkOf(id)
            IN  l # None =>
                /\ \A j \in 1..Len(issues[i].comments) :
                    LET c == issues[i].comments[j]
                    IN  Cardinality(CommentActionsFor(id, c))
                          = IF c.id \in DOMAIN l[1].comments THEN 0
                            ELSE Cardinality(OccurrencesOf(id, c))
                /\ \A k \in 1..Len(diff.commentActions) :
                    diff.commentActions[k].beadsIssueId = id =>
                        /\ diff.commentActions[k].githubIssueNumber
                             = l[1].github_issue_number
                        /\ OccurrencesOf(id, diff.commentActions[k].comment) # {}

\* a linked record that is not stale, with one comment synced and one new
C11_Witness ==
    /\ pc = "diffed"
    /\ Len(issues) = 1
    /\ LinkOf(issues[1].id) # None
    /\ DOMAIN LinkOf(issues[1].id)[1].comments = {"c1"}
    /\ [k \in 1..Len(issues[1].comments) |-> issues[1].comments[k].id] = <<"c1", "c2">>
    /\ diff.actions = <<>>
    /\ Len(diff.commentActions) = 1
    /\ diff.commentActions[1].comment.id = "c2"

----------------------------------------------------------------------------
(* Properties of the actions and of the phases of a run *)

C13_PhaseOrdering ==
    \A k \in 1..Len(calls) :
        calls[k].op = "createComment" =>
            /\ Len(attempts) = Len(diff.actions)
            /\ \A j \in k..Len(calls) : calls[j].op = "createComment"

\* a comment is created after an action that failed and one that succeeded
C13_Witness ==
    /\ pc = "done"
    /\ Len(attempts) = 1
    /\ attempts[1].action.type = "update"
    /\ attempts[1].out = "fail1"
    /\ calls[Len(calls)].op = "createComment"
    /\ calls[Len(calls)].ok

\* C14 (comments target a resolved mirror issue): every createComment call
\* targets the mirror number of a Link that the map holds for the comment's
\* source record.
C14_CommentsTargetLinked ==
    \A k \in 1..Len(calls) :
        calls[k].op = "createComment" =>
            /\ LinkOf(calls[k].beadsId) # None
            /\ LinkOf(calls[k].beadsId)[1].github_issue_number = calls[k].number

\* the comment actions of the diff that formatBeadsComment can render
Renderable ==
    {k \in 1..Len(diff.commentActions) :
        DateParse(diff.commentActions[k].comment.created_at) # NaN}

\* C15 (comment failure isolation): a comment that cannot be rendered or
\* created does not keep the comment actions after it from being attempted.
C15_CommentFailureIsolated ==
    (/\ run >= 1
     /\ pc \in {"done", "threw"}
     /\ config.syncComments
     /\ ~config.dryRun)
    => Cardinality({k \in 1..Len(calls) : calls[k].op = "createComment"})
         = Cardinality(Renderable)

\* C16 (every per-item failure is recorded): each failed call made for an
\* action, a deleted id or a comment has an entry in result.errors with its
\* source id, of kind comment for a comment.
C16_EveryFailureRecorded ==
    \A k \in 1..Len(calls) :
        (~calls[k].ok /\ calls[k].op # "ensureLabels") =>
            \E e \in 1..Len(result.errors) :
                /\ result.errors[e].beadsIssueId = calls[k].beadsId
                /\ calls[k].op = "createComment" => result.errors[e].action = "comment"

\* C17 (dry run changes nothing): with dryRun set no step of a run makes a
\* mirror call or changes the mirror or the map, last_full_sync included,
\* and every counter of the result stays zero.
C17_DryRunChangesNothing ==
    [][config.dryRun =>
        /\ mapping' = mapping
        /\ github' = github
        /\ calls' = <<>>
        /\ [result' EXCEPT !.errors = <<>>] = NewResult]_vars

\* a dry run is over that had two actions and a deleted id to close
C17_Witness ==
    /\ config.dryRun
    /\ config.closeDeleted
    /\ pc = "done"
    /\ Len(attempts) = 2
    /\ diff.deletedIssueIds # <<>>

\* C18 (adoption of a missing mirror issue): when getIssue answers that the
\* target is absent, no updateIssue call is made, no Link is created, one
\* error record of kind adopt is returned for the source id, the adopted
\* counter stays, and the actions after it are still executed.
C18_AdoptMissingIsolated ==
    /\ [](\A k \in 1..Len(attempts) :
            attempts[k].out = "null" =>
                IF pc = "actions" THEN idx = Len(attempts) + 1
                ELSE Len(attempts) = Len(diff.actions))
    /\ [][(/\ pc = "actions"
           /\ idx' = idx + 1
           /\ attempts'[Len(attempts')].out = "null")
          => LET a == diff.actions[idx]
             IN  /\ a.type = "adopt"
                 /\ calls' = Append(calls, Call("getIssue", a.githubIssueNumber,
                                                a.beadsIssue.id, TRUE))
                 /\ mapping' = mapping
                 /\ Len(result'.errors) = Len(result.errors) + 1
                 /\ result'.errors[Len(result'.errors)].beadsIssueId = a.beadsIssue.id
                 /\ result'.errors[Len(result'.errors)].action = "adopt"
                 /\ [result' EXCEPT !.errors = <<>>] = [result EXCEPT !.errors = <<>>]
                 /\ pc' = "actions"]_vars

\* the target of the first action is absent; the second action is executed
C18_Witness ==
    /\ Len(attempts) = 2
    /\ attempts[1].out = "null"
    /\ attempts[2].out = "ok"
    /\ attempts[2].action.beadsIssue.id # attempts[1].action.beadsIssue.id
    /\ LinkOf(attempts[1].action.beadsIssue.id) = None
    /\ result.adopted = 0
    /\ Len(result.errors) = 1

\* C19 (a record first linked while closed is closed on the mirror): after
\* a run in which every call succeeded, each closed record that was created
\* or adopted has had closeIssue called on its mirror number.
C19_ClosedOnFirstLink ==
    (pc = "done" /\ clean /\ ~config.dryRun) =>
        \A k \in 1..Len(attempts) :
            (/\ attempts[k].action.type \in {"create", "adopt"}
             /\ attempts[k].action.beadsIssue.status = "closed")
            => \E c \in 1..Len(calls) :
                    /\ calls[c].op = "closeIssue"
                    /\ calls[c].ok
                    /\ calls[c].beadsId = attempts[k].action.beadsIssue.id

\* C20 (source status determines mirror state): after a run in which every
\* call succeeded, the mirror issue of a record that had a Link and was
\* stale is closed when the record's status is closed and open otherwise.
C20_StatusDeterminesMirrorState ==
    (pc = "done" /\ clean /\ ~config.dryRun /\ Len(issues) = 1) =>
        \A k \in 1..Len(attempts) :
            attempts[k].action.type \in {"update", "close"} =>
                (attempts[k].action.githubIssueNumber \in github.closed
                    <=> attempts[k].action.beadsIssue.status = "closed")

----------------------------------------------------------------------------
(* Deleted records *)

Range(f) == {f[k] : k \in DOMAIN f}

\* the closeIssue calls the current run has made for a source id
CloseCallsFor(id) ==
    SelectSeq(calls, LAMBDA c : c.op = "closeIssue" /\ c.beadsId = id)

OwnIds(m) == Range(getMappedBeadsIds(m))

\* C24: once handleDeletedIssues is over in a run that is not a dry run, with
\* closeDeleted set closeIssue has been called exactly once, on the Link's
\* mirror number, for each deleted id that has a Link (whatever the calls for
\* the other ids did), and with closeDeleted unset no mirror call at all names
\* a deleted id; and no step of runSync removes a Link from the map.
C24_DeletedClosedNeverDropped ==
    /\ [](pc \in {"comments", "done"} /\ ~config.dryRun =>
            \A id \in Range(diff.deletedIssueIds) :
                IF config.closeDeleted
                THEN /\ LinkOf(id) # None
                     /\ Len(CloseCallsFor(id)) = 1
                     /\ CloseCallsFor(id)[1].number = LinkOf(id)[1].github_issue_number
                ELSE \A k \in 1..Len(calls) : calls[k].beadsId # id)
    /\ [][OwnIds(mapping) \subseteq OwnIds(mapping')]_vars

\* a run has ended where closing the first of two deleted ids failed and the
\* second was closed
C24_Witness ==
    /\ pc = "done"
    /\ ~config.dryRun
    /\ config.closeDeleted
    /\ diff.deletedIssueIds = <<"a", "b">>
    /\ Len(CloseCallsFor("a")) = 1 /\ ~CloseCallsFor("a")[1].ok
    /\ Len(CloseCallsFor("b")) = 1 /\ CloseCallsFor("b")[1].ok
    /\ 2 \in github.closed
    /\ OwnIds(mapping) = {"a", "b"}

----------------------------------------------------------------------------
(* Frame and order of the diff *)

RECURSIVE IsSubSeq(_, _)
IsSubSeq(q, s) ==
    IF q = <<>> THEN TRUE
    ELSE IF s = <<>> THEN FALSE
    ELSE IF Head(q) = Head(s) THEN IsSubSeq(Tail(q), Tail(s)) \/ IsSubSeq(q, Tail(s))
    ELSE IsSubSeq(q, Tail(s))

\* ca is, record after record from position k on, comment actions that carry
\* the record's id and comments of the record's list in the list's order
RECURSIVE CommentsInOrder(_, _)
CommentsInOrder(ca, k) ==
    IF k > Len(issues) THEN ca = <<>>
    ELSE \E n \in 0..Len(ca) :
            /\ \A i \in 1..n : ca[i].beadsIssueId = issues[k].id
            /\ IsSubSeq([i \in 1..n |-> ca[i].comment], issues[k].comments)
            /\ CommentsInOrder(SubSeq(ca, n + 1, Len(ca)), k + 1)

\* C28: the actions of the diff follow the snapshot's order, each one being
\* the action of the record at its position, and the comment actions are,
\* record after record in the snapshot's order, comments of the record in the
\* order of its comment list.
C28_SnapshotOrder ==
    pc = "diffed" =>
        /\ \A i \in 1..Len(diff.actions) :
              /\ diff.actions[i].pos \in 1..Len(issues)
              /\ diff.actions[i].beadsIssue = issues[diff.actions[i].pos]
              /\ \A j \in 1..Len(diff.actions) :
                    i < j => diff.actions[i].pos < diff.actions[j].pos
        /\ CommentsInOrder(diff.commentActions, 1)

\* two records with actions and comment actions each, the first one with two
\* comments
C28_Witness ==
    /\ pc = "diffed"
    /\ Len(issues) = 2
    /\ issues[1].id = "a" /\ issues[2].id = "b"
    /\ Len(diff.actions) = 2
    /\ Len(diff.commentActions) = 3
    /\ diff.commentActions[1].beadsIssueId = "a"
    /\ diff.commentActions[2].beadsIssueId = "a"
    /\ diff.commentActions[1].comment # diff.commentActions[2].comment
    /\ diff.commentActions[3].beadsIssueId = "b"

----------------------------------------------------------------------------
(* What the actions write into the map *)

\* the step hands an action of this type to executeAction, outside a dry
\* run, and every mirror call of the action succeeds
Succeeds(type) ==
    /\ pc = "actions"
    /\ ~config.dryRun
    /\ Len(attempts') = Len(attempts) + 1
    /\ attempts'[Len(attempts')].action.type = type
    /\ attempts'[Len(attempts')].out = "ok"

\* C29: after a successful create the map holds, for the record's id, a Link
\* with the number and id that createIssue returned, the record's updated_at
\* as watermark, the adopted flag false and no comment; after a successful
\* adopt, a Link with the number and id that getIssue returned, the record's
\* updated_at as watermark, the adopted flag true and no comment.
C29_LinkOfCreateAndAdopt ==
    [][\A type \in {"create", "adopt"} :
        Succeeds(type) =>
            LET r == diff.actions[idx].beadsIssue
                op == IF type = "create" THEN "createIssue" ELSE "getIssue"
                answers == SelectSeq(calls', LAMBDA c : c.op = op /\ c.beadsId = r.id)
                answer == answers[Len(answers)]
            IN  /\ answers # <<>>
                /\ answer.ok
                /\ type = "adopt" => answer.number = parseExternalRef(r.external_ref)
                /\ LinkIn(mapping', r.id) # None
                /\ LET link == LinkIn(mapping', r.id)[1]
                   IN  /\ link.github_issue_number = answer.number
                       /\ link.github_issue_id = IssueId(answer.number)
                       /\ link.beads_updated_at = r.updated_at
                       /\ link.adopted_from_external_ref = (type = "adopt")
                       /\ link.comments = NoComments]_vars

\* a run has created one record and adopted another
C29_Witness ==
    /\ pc = "done"
    /\ Len(attempts) = 2
    /\ {attempts[1].action.type, attempts[2].action.type} = {"create", "adopt"}
    /\ attempts[1].out = "ok" /\ attempts[2].out = "ok"
    /\ \E i, j \in 1..Len(mapping.mappings) :
          /\ ~mapping.mappings[i].link.adopted_from_external_ref
          /\ mapping.mappings[i].link.github_issue_number = 3
          /\ mapping.mappings[j].link.adopted_from_external_ref
          /\ mapping.mappings[j].link.github_issue_number = 1

\* m with the watermark and the sync time of the Link of id blanked
Blanked(m, id) ==
    [m EXCEPT !.mappings =
        [k \in 1..Len(@) |->
            IF @[k].id = id
            THEN [@[k] EXCEPT !.link.beads_updated_at = "", !.link.last_sync_at = 0]
            ELSE @[k]]]

\* C30: a successful update or close changes nothing in the map but the
\* watermark and the sync time of the record's Link, which become the
\* record's updated_at and the current time.
C30_UpdateCloseTouchWatermarkOnly ==
    [][\A type \in {"update", "close"} :
        Succeeds(type) =>
            LET r == diff.actions[idx].beadsIssue
            IN  /\ Blanked(mapping', r.id) = Blanked(mapping, r.id)
                /\ LinkIn(mapping', r.id) # None
                /\ LinkIn(mapping', r.id)[1].beads_updated_at = r.updated_at
                /\ LinkIn(mapping', r.id)[1].last_sync_at = clock]_vars

\* a second run has updated or closed a record whose Link holds a synced
\* comment
C30_Witness ==
    /\ run = 2
    /\ pc = "actions"
    /\ Len(attempts) = 1
    /\ attempts[1].action.type \in {"update", "close"}
    /\ attempts[1].out = "ok"
    /\ LinkOf(attempts[1].action.beadsIssue.id) # None
    /\ LinkOf(attempts[1].action.beadsIssue.id)[1].last_sync_at = clock
    /\ LinkOf(attempts[1].action.beadsIssue.id)[1].beads_updated_at = "t2"
    /\ LinkOf(attempts[1].action.beadsIssue.id)[1].comments # NoComments

----------------------------------------------------------------------------
(* The identity map's interface on its own: any sequence of its operations *)

MapIds == {"a", "constructor"}
CommentIds == {"c1", "c2"}
MirrorCommentIds == {100, 101}

\* a call of the interface: its arguments, what it returned (Null for
\* nothing or undefined) and whether it threw
MapCall(op, id, cid, n, ret, threw) ==
    [op |-> op, id |-> id, cid |-> cid, n |-> n, ret |-> ret, threw |-> threw]

\* the tokens of the texts a persisted map is read from
TextTokens ==
    {Punct("{"), Punct("}"), Punct("["), Punct("]"), Punct(":"), Punct(","),
     Punct("null"), Punct("ws"), Punct("bad"), StrTok("version"), NumTok(1)}

MaxTokens == 3

\* a map is built by the operations, written and read back; or a text is read
InitMap ==
    /\ mapping = createEmptyMapping("t1")
    /\ returned = MapCall("", "", "", 0, Null, FALSE)
    /\ \/ content = <<>> /\ pc = "idle"
       \/ content \in SeqsUpTo(TextTokens, MaxTokens) /\ pc = "serialized"
    /\ issues = <<>>
    /\ config = [dryRun |-> TRUE, syncComments |-> TRUE, closeDeleted |-> TRUE,
                 syncStatuses |-> Statuses, syncPriorities |-> 0..4, syncLabels |-> {}]
    /\ github = [created |-> <<>>, comments |-> 0, closed |-> {}]
    /\ clock = 0
    /\ run = 0
    /\ diff = EmptyDiff
    /\ idx = 1
    /\ result = NewResult
    /\ calls = <<>>
    /\ attempts = <<>>
    /\ clean = TRUE

SetMapping ==
    /\ pc = "idle"
    /\ \E id \in MapIds, adopted \in BOOLEAN :
        /\ mapping' = setMapping(mapping, id,
                createIssueMapping(1, IssueId(1), "t1", adopted, "t2"))
        /\ returned' = MapCall("setMapping", id, "", 0, Null, FALSE)
    /\ UNCHANGED <<issues, config, github, clock, pc, run, diff, idx, result,
                   calls, attempts, clean, content>>

RemoveMapping ==
    /\ pc = "idle"
    /\ \E id \in MapIds :
        /\ mapping' = removeMapping(mapping, id)
        /\ returned' = MapCall("removeMapping", id, "", 0, Null, FALSE)
    /\ UNCHANGED <<issues, config, github, clock, pc, run, diff, idx, result,
                   calls, attempts, clean, content>>

SetCommentMapping ==
    /\ pc = "idle"
    /\ \E id \in MapIds, cid \in CommentIds, n \in MirrorCommentIds :
        IF commentMappingThrows(mapping, id)
        THEN /\ mapping' = mapping
             /\ returned' = MapCall("setCommentMapping", id, cid, n, Null, TRUE)
        ELSE /\ mapping' = setCommentMapping(mapping, id, cid, n)
             /\ returned' = MapCall("setCommentMapping", id, cid, n, Null, FALSE)
    /\ UNCHANGED <<issues, config, github, clock, pc, run, diff, idx, result,
                   calls, attempts, clean, content>>

GetCommentMapping ==
    /\ pc = "idle"
    /\ \E id \in MapIds, cid \in CommentIds :
        returned' =
            IF commentMappingThrows(mapping, id)
            THEN MapCall("getCommentMapping", id, cid, 0, Null, TRUE)
            ELSE MapCall("getCommentMapping", id, cid, 0,
                         getCommentMapping(mapping, id, cid), FALSE)
    /\ UNCHANGED <<issues, config, mapping, github, clock, pc, run, diff, idx,
                   result, calls, attempts, clean, content>>

\* the map is written out
SerializeMapping ==
    /\ pc = "idle"
    /\ content' = serializeMapping(mapping)
    /\ returned' = MapCall("serializeMapping", "", "", 0, Null, FALSE)
    /\ pc' = "serialized"
    /\ UNCHANGED <<issues, config, mapping, github, clock, run, diff, idx,
                   result, calls, attempts, clean>>

\* the text is read
DeserializeMapping ==
    /\ pc = "serialized"
    /\ LET done == deserializeMapping(content, "t3")
       IN  returned' = MapCall("deserializeMapping", "", "", 0, done.value, done.threw)
    /\ pc' = "deserialized"
    /\ UNCHANGED <<issues, config, mapping, github, clock, run, diff, idx,
                   result, calls, attempts, clean, content>>

MapOps ==
    \/ SetMapping
    \/ RemoveMapping
    \/ SetCommentMapping
    \/ GetCommentMapping
    \/ SerializeMapping
    \/ DeserializeMapping

SpecMap == InitMap /\ [][MapOps]_vars

LinkFields == {"github_issue_number", "github_issue_id", "last_sync_at",
               "beads_updated_at", "adopted_from_external_ref", "comments"}

\* C21: setCommentMapping on an id without a Link leaves the map as it was;
\* whatever operations were applied, every entry of the map that holds
\* comments is a whole Link; and setCommentMapping on an id with a Link
\* returns, after which getCommentMapping gives the mirror comment id that
\* was stored.
C21_NoDanglingCommentMap ==
    /\ [][returned'.op = "setCommentMapping" /\ LinkIn(mapping, returned'.id) = None
            => mapping' = mapping]_vars
    /\ [](\A k \in 1..Len(mapping.mappings) :
            DOMAIN mapping.mappings[k].link = LinkFields)
    /\ [][returned'.op = "setCommentMapping" /\ LinkIn(mapping, returned'.id) # None
            => /\ ~returned'.threw
               /\ LinkIn(mapping', returned'.id) # None
               /\ getCommentMapping(mapping', returned'.id, returned'.cid)
                    = returned'.n]_vars

\* setCommentMapping was called on an id without a Link while another id was
\* linked, with a comment recorded
C21_Witness ==
    /\ returned.op = "setCommentMapping"
    /\ returned.id = "a"
    /\ ~returned.threw
    /\ LinkOf("a") = None
    /\ LinkOf("constructor") # None
    /\ getCommentMapping(mapping, "constructor", "c1") = 100

----------------------------------------------------------------------------
(* The persisted map *)

\* C22: a map built by the map's operations, written by serializeMapping and
\* read by deserializeMapping comes back as the same object, field for field.
C22_RoundTrip ==
    pc = "deserialized" /\ content = serializeMapping(mapping) =>
        /\ ~returned.threw
        /\ returned.ret = mappingObject(mapping)

\* a map of two Links, one adopted, one with two comments, has made the trip
C22_Witness ==
    /\ pc = "deserialized"
    /\ content = serializeMapping(mapping)
    /\ Len(mapping.mappings) = 2
    /\ \E i, j \in 1..2 :
          /\ mapping.mappings[i].link.adopted_from_external_ref
          /\ ~mapping.mappings[j].link.adopted_from_external_ref
          /\ DOMAIN mapping.mappings[j].link.comments = CommentIds
    /\ ~returned.threw

\* a text that is a persisted map: an object with version, mappings and
\* sync_metadata
WellFormed(text) ==
    /\ JSONparse(text).ok
    /\ \A key \in {"version", "mappings", "sync_metadata"} :
          Field(JSONparse(text).v, key) # JUndefined

\* C23: deserializeMapping of an empty text returns a fresh empty map, of
\* version 1 and without Links, and deserializeMapping of a text that is not
\* empty and not a persisted map throws.
C23_DeserializationOutcomes ==
    pc = "deserialized" =>
        /\ Blank(content) =>
              /\ ~returned.threw
              /\ Field(returned.ret, "version") = JNum(1)
              /\ Field(returned.ret, "mappings") = JObj(<<>>)
        /\ ~Blank(content) /\ ~WellFormed(content) => returned.threw

----------------------------------------------------------------------------
(* The parser on its own *)

MaxLines == 3

\* the line of a record with the given members
ObjectLine(members) ==
    <<Punct("{")>> \o stringifyMembers(members, 1, TRUE) \o <<Punct("}")>>

RecordMembers(id, status) ==
    <<Member("id", JStr(id)), Member("title", JStr("T")),
      Member("status", JStr(status)), Member("created_at", JStr("t1")),
      Member("updated_at", JStr("t2"))>>

\* stringifyMembers puts each member on a line of its own; a record of the
\* beads file is on one line
OneLine(text) ==
    [k \in 1..Len(text) |-> IF text[k].t = "nl" THEN Punct("ws") ELSE text[k]]

\* lines of a beads file: blank ones, records, records that lack a field or
\* have a status that is none, values that are no object, texts that are no JSON
Lines ==
    {<<>>,
     <<Punct("ws")>>,
     OneLine(ObjectLine(RecordMembers("a", "open"))),
     <<Punct("ws")>> \o OneLine(ObjectLine(RecordMembers("b", "closed"))) \o <<Punct("ws")>>,
     OneLine(ObjectLine(RecordMembers("a", "done"))),
     OneLine(ObjectLine(RecordMembers("", "open"))),
     OneLine(ObjectLine(SubSeq(RecordMembers("a", "open"), 1, 2))),
     <<Punct("null")>>,
     <<NumTok(1)>>,
     <<Punct("["), Punct("]")>>,
     <<Punct("bad")>>,
     <<Punct("{")>>,
     OneLine(ObjectLine(RecordMembers("a", "open"))) \o <<Punct("bad")>>}

RECURSIVE JoinLines(_)
JoinLines(lines) ==
    IF lines = <<>> THEN <<>>
    ELSE IF Len(lines) = 1 THEN lines[1]
    ELSE lines[1] \o <<Punct("nl")>> \o JoinLines(Tail(lines))

InitParse ==
    /\ content \in {JoinLines(l) : l \in SeqsUpTo(Lines, MaxLines)}
    /\ returned = [issues |-> <<>>, errors |-> <<>>]
    /\ mapping = createEmptyMapping("t1")
    /\ issues = <<>>
    /\ config = [dryRun |-> TRUE, syncComments |-> TRUE, closeDeleted |-> TRUE,
                 syncStatuses |-> Statuses, syncPriorities |-> 0..4, syncLabels |-> {}]
    /\ github = [created |-> <<>>, comments |-> 0, closed |-> {}]
    /\ clock = 0
    /\ pc = "idle"
    /\ run = 0
    /\ diff = EmptyDiff
    /\ idx = 1
    /\ result = NewResult
    /\ calls = <<>>
    /\ attempts = <<>>
    /\ clean = TRUE

ParseBeadsFile ==
    /\ pc = "idle"
    /\ returned' = parseBeadsFile(content)
    /\ pc' = "parsed"
    /\ UNCHANGED <<issues, config, mapping, github, clock, run, diff, idx,
                   result, calls, attempts, clean, content>>

SpecParse == InitParse /\ [][ParseBeadsFile]_vars

\* the numbers of the lines of the text that are not blank and that do, or
\* do not, parse and validate
LinesThat(accepted) ==
    LET lines == splitLines(content)
    IN  SelectSeq([i \in 1..Len(lines) |-> i],
            LAMBDA i : /\ ~Blank(lines[i])
                       /\ accepted = (/\ JSONparse(lines[i]).ok
                                      /\ validateBeadsIssue(JSONparse(lines[i]).v)))

\* C25: the issues parseBeadsFile returns are the values of the lines that
\* parse and validate, in the order of the lines, and its errors carry the
\* numbers, counted from 1, of the other lines that are not blank, in the
\* order of the lines: a blank line gives nothing, every other line gives one
\* issue or one error whatever the lines before it were.
C25_ParsingIsolatesBadLines ==
    pc = "parsed" =>
        LET lines == splitLines(content)
        IN  /\ returned.issues =
                  [k \in 1..Len(LinesThat(TRUE)) |->
                      JSONparse(lines[LinesThat(TRUE)[k]]).v]
            /\ [k \in 1..Len(returned.errors) |-> returned.errors[k].line]
                  = LinesThat(FALSE)

\* a text of three lines was parsed: one that is no JSON, a blank one, a record
C25_Witness ==
    /\ pc = "parsed"
    /\ Len(splitLines(content)) = 3
    /\ ~JSONparse(splitLines(content)[1]).ok
    /\ Blank(splitLines(content)[2])
    /\ Len(returned.errors) = 1
    /\ returned.errors[1].line = 1
    /\ Len(returned.issues) = 1
    /\ Field(returned.issues[1], "id") = JStr("a")

----------------------------------------------------------------------------
(* Comments of records that are adopted or created *)

\* no other record of the snapshot has the id of the record at position k
AloneAt(k) == \A j \in 1..Len(issues) : issues[j].id = issues[k].id => j = k

\* C31: for an adopt action, the comment actions of the diff that name the
\* record (the only one of its id in the snapshot) are one per comment of the
\* record, in the record's order, each on the number of the adopt action; for
\* a create action there is none.
C31_AdoptionCommentsAllNew ==
    pc = "diffed" =>
        \A i \in 1..Len(diff.actions) :
            LET a == diff.actions[i]
                r == a.beadsIssue
                mine == SelectSeq(diff.commentActions, LAMBDA c : c.beadsIssueId = r.id)
            IN  AloneAt(a.pos) =>
                  /\ a.type = "adopt" =>
                        mine = [k \in 1..Len(r.comments) |->
                                  [beadsIssueId |-> r.id,
                                   githubIssueNumber |-> parseExternalRef(r.external_ref),
                                   comment |-> r.comments[k]]]
                  /\ a.type = "create" => mine = <<>>

\* a record with two comments is adopted and a record with comments is created
C31_Witness ==
    /\ pc = "diffed"
    /\ Len(diff.actions) = 2
    /\ diff.actions[1].type = "adopt"
    /\ Len(diff.actions[1].beadsIssue.comments) = 2
    /\ diff.actions[2].type = "create"
    /\ diff.actions[2].beadsIssue.comments # <<>>
    /\ diff.actions[2].beadsIssue.id # diff.actions[1].beadsIssue.id
    /\ Len(diff.commentActions) = 2
    /\ diff.commentActions[1].githubIssueNumber = 1

----------------------------------------------------------------------------
(* Runs under filters that hold records back *)

\* records of id "a" of any status, priority and label among a few
RecordsFilterA ==
    [id : {"a"},
     status : {"open", "blocked"},
     priority : {Null, 0, 2},
     labels : {{}, {"x"}},
     updated_at : {"t2"},
     external_ref : {<<>>},
     comments : {<<>>}]

RecordsFilterB ==
    [id : {"b"},
     status : {"open"},
     priority : {Null, 2},
     labels : {{"x"}},
     updated_at : {"t2"},
     external_ref : {<<>>},
     comments : {<<>>}]

ConfigsFilter ==
    [dryRun : {FALSE},
     syncComments : {FALSE},
     closeDeleted : BOOLEAN,
     syncStatuses : {Statuses, {"open"}},
     syncPriorities : {0..4, {0}},
     syncLabels : {{}, {"x"}}]

InitFilter ==
    /\ issues \in {<<r>> : r \in RecordsFilterA}
                    \cup {<<r, q>> : r \in RecordsFilterA, q \in RecordsFilterB}
                    \cup {<<q, r>> : r \in RecordsFilterA, q \in RecordsFilterB}
    /\ config \in ConfigsFilter
    /\ mapping \in {[createEmptyMapping(0) EXCEPT !.mappings = <<LinkedBefore("a")>>],
                    BothLinked}
    /\ github = [created |-> <<>>, comments |-> 0, closed |-> {}]
    /\ clock = 0
    /\ pc = "idle"
    /\ run = 0
    /\ diff = EmptyDiff
    /\ idx = 1
    /\ result = NewResult
    /\ calls = <<>>
    /\ attempts = <<>>
    /\ clean = TRUE
    /\ content = <<>>
    /\ returned = None

SpecFilter == InitFilter /\ [][Next]_vars

\* the records of the snapshot that the configuration lets through, in the
\* snapshot's order
Kept ==
    SelectSeq(issues, LAMBDA r :
        /\ r.status \in config.syncStatuses
        /\ (r.priority = Null \/ r.priority \in config.syncPriorities)
        /\ (config.syncLabels = {} \/ \E l \in config.syncLabels : l \in r.labels))

\* C32: filterIssues keeps, in the snapshot's order, the records whose status
\* is in syncStatuses, whose priority is undefined or in syncPriorities and,
\* when syncLabels is not empty, one of whose labels is in syncLabels; and the
\* diff of a run is the diff of the kept records.
C32_Filtering ==
    /\ [](filterIssues(issues, config) = Kept)
    /\ [][run' = run + 1 /\ pc' = "actions" => diff' = computeDiff(Kept, mapping)]_vars
    /\ [](\A i \in 1..Len(diff.actions) :
            /\ diff.actions[i].pos \in 1..Len(Kept)
            /\ diff.actions[i].beadsIssue = Kept[diff.actions[i].pos])

\* a run is over whose filters held back the first of two records, for its
\* label, and let through the second, which it updated
C32_Witness ==
    /\ pc = "done"
    /\ Len(issues) = 2
    /\ config.syncLabels = {"x"}
    /\ issues[1].labels = {}
    /\ Kept = <<issues[2]>>
    /\ Len(attempts) = 1
    /\ attempts[1].action.beadsIssue = issues[2]
    /\ attempts[1].action.type = "update"

\* C36: the calls of handleDeletedIssues close mirror issues only of source
\* ids that do not occur in the snapshot handed to runSync.
C36_OnlyAbsentClosedAsDeleted ==
    [][pc = "actions" /\ pc' = "comments" =>
        \A k \in (Len(calls) + 1)..Len(calls') :
            \A j \in 1..Len(issues) : issues[j].id # calls'[k].beadsId]_vars

----------------------------------------------------------------------------
(* The summary of a run *)

\* the number of actions of the diff of one kind
ActionsOf(type) ==
    Cardinality({i \in 1..Len(diff.actions) : diff.actions[i].type = type})

\* the successful calls of one name made by the run
OkCalls(name) ==
    {k \in 1..Len(calls) : calls[k].op = name /\ calls[k].ok}

\* the deleted records the run closed: the successful closeIssue calls for the
\* ids computeDiff reported as deleted
DeletedClosed ==
    Cardinality({k \in OkCalls("closeIssue") :
                    calls[k].beadsId \in Range(diff.deletedIssueIds)})

\* C33: at the end of a non-dry-run runSync every action of the diff is
\* counted once, in the counter of its kind or as an entry of result.errors,
\* and commentsSynced is the number of successful createComment calls.
C33_SummaryAccounting ==
    (pc = "done" /\ ~config.dryRun) =>
        /\ Len(attempts) = Len(diff.actions)
        /\ result.created + result.updated + result.adopted + result.reopened
              + (result.closed - DeletedClosed) + Len(result.errors)
           = Len(diff.actions)
        /\ result.created <= ActionsOf("create")
        /\ result.updated <= ActionsOf("update")
        /\ result.adopted <= ActionsOf("adopt")
        /\ result.reopened <= ActionsOf("reopen")
        /\ result.closed - DeletedClosed <= ActionsOf("close")
        /\ result.commentsSynced = Cardinality(OkCalls("createComment"))

\* a run is over that closed one record's mirror issue by a close action and
\* another, of a deleted record, in handleDeletedIssues
C33_Witness ==
    /\ pc = "done"
    /\ ~config.dryRun
    /\ Len(diff.actions) = 1
    /\ DeletedClosed = 1
    /\ result.closed = 2

----------------------------------------------------------------------------
(* Links and mirror issue numbers *)

\* C34: the Links of distinct source ids name distinct mirror issues, in the
\* maps the runs start from and after every step of every run.
C34_UniqueMirrorNumbers ==
    \A i, j \in 1..Len(mapping.mappings) :
        mapping.mappings[i].id # mapping.mappings[j].id =>
            mapping.mappings[i].link.github_issue_number
                # mapping.mappings[j].link.github_issue_number

----------------------------------------------------------------------------
(* Mirror comments and the map *)

\* the map records the mirror comment of a comment action
Recorded(m, action) ==
    /\ LinkIn(m, action.beadsIssueId) # None
    /\ action.comment.id \in DOMAIN LinkIn(m, action.beadsIssueId)[1].comments

\* C35: after syncComments, each comment action whose createComment call
\* succeeded has its mirror comment id in the map, under the Link of its
\* source record, and the diff of the same snapshot against that map has no
\* comment action for that comment.
C35_NoUnrecordedComment ==
    [][(pc = "comments" /\ pc' \in {"done", "threw"}
            /\ config.syncComments /\ ~config.dryRun) =>
        \A k \in 1..(Len(calls') - Len(calls)) :
            calls'[Len(calls) + k].ok =>
                /\ Recorded(mapping', diff.commentActions[k])
                /\ \A c \in Range(computeDiff(filterIssues(issues, config),
                                              mapping').commentActions) :
                      ~(/\ c.beadsIssueId = diff.commentActions[k].beadsIssueId
                        /\ c.comment.id = diff.commentActions[k].comment.id)]_vars

----------------------------------------------------------------------------
(* The watermark over the runs *)

\* C37: no step of a run changes the beads_updated_at of the Link of a source
\* id to a timestamp earlier than the one the Link held before the step.
C37_WatermarkNeverBackwards ==
    [][\A id \in Ids :
        (LinkIn(mapping, id) # None /\ LinkIn(mapping', id) # None) =>
            ~(DateParse(LinkIn(mapping', id)[1].beads_updated_at)
                < DateParse(LinkIn(mapping, id)[1].beads_updated_at))]_vars

----------------------------------------------------------------------------
(* runSync repeated without end on one snapshot, the map carried over *)

MaxMirrorComments == 3

\* the counters of the runs, of the clock and of the mirror's comments stop at
\* their bounds: computeDiff reads none of them
UpTo(n, max) == IF n < max THEN n + 1 ELSE n

\* runSync is entered, for the first time or again
StartRunLive ==
    /\ pc \in {"idle", "done", "threw"}
    /\ run' = UpTo(run, MaxRuns)
    /\ clock' = UpTo(clock, MaxRuns)
    /\ result' = NewResult
    /\ attempts' = <<>>
    /\ idx' = 1
    /\ \E labelsOk \in BOOLEAN :
        LET filteredIssues == filterIssues(issues, config)
            returns == labelsOk /\ ~computeDiffThrows(filteredIssues, mapping)
        IN  /\ clean' = (clean /\ labelsOk)
            /\ calls' = <<Call("ensureLabels", Null, "", labelsOk)>>
            /\ diff' = IF returns THEN computeDiff(filteredIssues, mapping) ELSE EmptyDiff
            /\ pc' = IF returns THEN "actions" ELSE "threw"
    /\ UNCHANGED <<issues, config, mapping, github>>
    /\ UNCHANGED <<content, returned>>

\* one iteration of the action loop, the adoption target existing
ExecuteActionLive ==
    /\ ExecuteAction
    /\ attempts'[Len(attempts')].out # "null"

\* syncComments and the end of runSync
SyncCommentsLive ==
    /\ pc = "comments"
    /\ \E outs \in [1..Len(diff.commentActions) -> BOOLEAN] :
        LET done == syncComments(diff.commentActions, mapping, github, FALSE, outs)
        IN  /\ github' = [done.github EXCEPT !.comments =
                            IF @ > MaxMirrorComments THEN MaxMirrorComments ELSE @]
            /\ calls' = calls \o done.calls
            /\ clean' = (/\ clean
                         /\ ~done.threw
                         /\ \A k \in 1..Len(done.calls) : done.calls[k].ok)
            /\ IF done.threw
               THEN /\ mapping' = done.mapping
                    /\ result' = result
                    /\ pc' = "threw"
               ELSE /\ mapping' = updateLastSyncTime(done.mapping, clock)
                    /\ result' = [result EXCEPT !.commentsSynced = done.synced]
                    /\ pc' = "done"
    /\ UNCHANGED <<issues, config, clock, run, diff, idx, attempts>>
    /\ UNCHANGED <<content, returned>>

NextLive ==
    StartRunLive \/ ExecuteActionLive \/ HandleDeletedIssues \/ SyncCommentsLive

\* snapshots of distinct ids: one record with comments, or two without
SnapshotsLive ==
    {<<r>> : r \in RecordsCommented}
        \cup {s \in [1..2 -> Records] : s[1].id # s[2].id}

InitLive ==
    /\ issues \in SnapshotsLive
    /\ config \in {c \in Configs : ~c.dryRun /\ c.syncComments}
    /\ mapping \in InitMaps
    /\ github = [created |-> <<>>, comments |-> 0, closed |-> {}]
    /\ clock = 0
    /\ pc = "idle"
    /\ run = 0
    /\ diff = EmptyDiff
    /\ idx = 1
    /\ result = NewResult
    /\ calls = <<>>
    /\ attempts = <<>>
    /\ clean = TRUE
    /\ content = <<>>
    /\ returned = None

\* every mirror call the step has made succeeded (StartRunLive starts the
\* log of the calls anew)
AllCallsOk ==
    \A k \in 1..Len(calls') :
        (pc \in {"idle", "done", "threw"} \/ k > Len(calls)) => calls'[k].ok

\* runSync is called again and again and each of its steps is taken; every
\* mirror call that is made again and again succeeds at some time
FairLive ==
    /\ WF_vars(StartRunLive)
    /\ WF_vars(ExecuteActionLive)
    /\ WF_vars(HandleDeletedIssues)
    /\ WF_vars(SyncCommentsLive)
    /\ SF_vars(StartRunLive /\ AllCallsOk)
    /\ SF_vars(ExecuteActionLive /\ AllCallsOk)
    /\ SF_vars(HandleDeletedIssues /\ AllCallsOk)
    /\ SF_vars(SyncCommentsLive /\ AllCallsOk)

SpecLive == InitLive /\ [][NextLive]_vars /\ FairLive

\* the diff of the snapshot against the current map has nothing left to do
Converged ==
    LET d == computeDiff(filterIssues(issues, config), mapping)
    IN  d.actions = <<>> /\ d.commentActions = <<>>

\* C38: when runSync is repeated on a snapshot of distinct ids with the map
\* carried over, and every mirror call succeeds at some time, the diff of the
\* snapshot becomes empty of actions and comment actions and stays so.
C38_EventualConvergence == <>[]Converged

\* a comment whose date formatBeadsComment cannot render
Unrenderable ==
    \E i \in 1..Len(issues) : \E k \in 1..Len(issues[i].comments) :
        formatBeadsCommentThrows(issues[i].comments[k])

\* the runs on a snapshot all of whose comments render do converge
ConvergesWhenRenderable == Unrenderable \/ <>[]Converged

====
